---- MODULE Spec2Model ----
(***************************************************************************)
(* A model of the pxp PHP parser slice: the token stream driver, the       *)
(* production combinators, the loop productions (foreach / for / do-while  *)
(* / while / break / continue), trait usage and the variable productions.  *)
(*                                                                         *)
(* A production is a function from a parser State to a ParseResult, as in  *)
(* the source (fn(&mut State) -> ParseResult<T>).  A State is the record   *)
(* [tokens, cursor, log]: the token vector, the cursor into it, and a      *)
(* history of the cursor values at which next() was called, and the        *)
(* pending attribute groups.  A span is                                    *)
(* the index of its token in the source (tokens are in source order, each  *)
(* token covers one contiguous range).                                     *)
(***************************************************************************)
EXTENDS Integers, Sequences, FiniteSets, TLC

VARIABLES state, production, pending, began, result,
          syntax_error, operation, output, frame

vars == <<state, production, pending, began, result,
          syntax_error, operation, output, frame>>

(***************************************************************************)
(* Bounds of the explored inputs.                                          *)
(***************************************************************************)
\* deepest nesting of parentheses around a break / continue level
MaxDepth == 3
\* most statements between `:` and the end keyword of a block body
MaxStatements == 1
\* most expressions in one comma-separated list of a `for` header
MaxList == 2
\* most trait names after `use`
MaxTraits == 2
\* most adaptations between the braces of a trait use
MaxAdaptations == 2
\* most members in a trait body
MaxMembers == 2
\* most `$` tokens in front of a variable
MaxDollars == 3
\* last line and last column a lexer error is reported at
MaxLine == 2
MaxColumn == 2
\* deepest indentation a heredoc body is expected to have
MaxIndentation == 1

(***************************************************************************)
(* Tokens.                                                                 *)
(***************************************************************************)
Tok(kind, value) == [kind |-> kind, value |-> value]

EofKind == "Eof"

\* The lexer's output: every token gets its span, and the stream ends with
\* the synthetic EOF sentinel.
Lex(lexemes) ==
    [i \in 1..(Len(lexemes) + 1) |->
        IF i <= Len(lexemes)
        THEN [kind |-> lexemes[i].kind, value |-> lexemes[i].value, span |-> i]
        ELSE [kind |-> EofKind, value |-> "", span |-> i]]

(***************************************************************************)
(* 4.1 Stream driver.                                                      *)
(***************************************************************************)
current(st) ==
    IF st.cursor >= Len(st.tokens)
    THEN st.tokens[Len(st.tokens)]
    ELSE st.tokens[st.cursor]

peek(st) ==
    IF st.cursor + 1 >= Len(st.tokens)
    THEN st.tokens[Len(st.tokens)]
    ELSE st.tokens[st.cursor + 1]

next(st) ==
    [st EXCEPT !.cursor = st.cursor + 1, !.log = Append(st.log, st.cursor)]

is_eof(st) == st.cursor >= Len(st.tokens)

(***************************************************************************)
(* ParseResult<T>.                                                         *)
(***************************************************************************)
NoValue == [type |-> "NoValue"]
NoError == [expected |-> <<>>, found |-> "", span |-> 0]

Ok(st, v) == [ok |-> TRUE, state |-> st, value |-> v, error |-> NoError]

Err(st, e) == [ok |-> FALSE, state |-> st, value |-> NoValue, error |-> e]

\* expected_token_err!: the error names the current token.
expected_token_err(expected, st) ==
    Err(st, [expected |-> expected, found |-> current(st).kind,
             span |-> current(st).span])

None == <<>>
Some(x) == <<x>>

\* The `?` of the source: a failure is returned unchanged from the caller,
\* a success is handed to the rest of the body.
Try(r, rest(_)) == IF ~r.ok THEN r ELSE rest(r)

(***************************************************************************)
(* 4.2 Combinators.                                                        *)
(***************************************************************************)
\* the name a kind is listed under in an expected-token error
KindName(kind) == kind

skip(st, kind) ==
    IF current(st).kind = kind
    THEN Ok(next(st), current(st).span)
    ELSE expected_token_err(<<KindName(kind)>>, st)

skip_semicolon(st) == skip(st, "SemiColon")

skip_left_brace(st) == skip(st, "LeftBrace")

skip_right_brace(st) == skip(st, "RightBrace")

skip_colon(st) == skip(st, "Colon")

skip_ending(st) ==
    IF current(st).kind = "CloseTag"
    THEN Ok(next(st), [type |-> "CloseTag", span |-> current(st).span])
    ELSE IF current(st).kind = "SemiColon"
    THEN Ok(next(st), [type |-> "Semicolon", span |-> current(st).span])
    ELSE expected_token_err(<<"SemiColon">>, st)

\* The closure a production passes to a combinator, named by the production
\* or the part of one it runs; closure(inner, st) calls it.
RECURSIVE closure(_, _)

\* parenthesized(inner): `(` inner `)`; the value is the triple of the source.
parenthesized(st, inner) ==
    Try(skip(st, "LeftParen"), LAMBDA l :
    Try(closure(inner, l.state), LAMBDA i :
    Try(skip(i.state, "RightParen"), LAMBDA r :
    Ok(r.state, [left |-> l.value, inner |-> i.value, right |-> r.value]))))

\* semicolon_terminated(inner): inner, then `;`; the value is the pair.
semicolon_terminated(st, inner) ==
    Try(closure(inner, st), LAMBDA i :
    Try(skip_semicolon(i.state), LAMBDA s :
    Ok(s.state, [semicolon |-> s.value, inner |-> i.value])))

\* The loop of comma_separated_no_trailing: one element, then `,` or stop.
RECURSIVE comma_separated_loop(_, _, _, _, _)
comma_separated_loop(st, inner, until, elems, commas) ==
    IF current(st).kind = until
    THEN Ok(st, [inner |-> elems, commas |-> commas])
    ELSE
        Try(closure(inner, st), LAMBDA e :
        IF current(e.state).kind # "Comma"
        THEN Ok(e.state, [inner |-> Append(elems, e.value), commas |-> commas])
        ELSE IF peek(e.state).kind = until
        THEN expected_token_err(<<"an element">>, e.state)
        ELSE comma_separated_loop(next(e.state), inner, until,
                                  Append(elems, e.value),
                                  Append(commas, current(e.state).span)))

comma_separated_no_trailing(st, inner, until) ==
    comma_separated_loop(st, inner, until, <<>>, <<>>)

(***************************************************************************)
(* 4.5 Variables, and the expressions the productions of this slice read.  *)
(***************************************************************************)
RECURSIVE expressions_create(_)
RECURSIVE dynamic_variable(_)

simple_variable(st) ==
    IF current(st).kind = "Variable"
    THEN Ok(next(st), [type |-> "SimpleVariable", span |-> current(st).span,
                       name |-> current(st).value])
    ELSE expected_token_err(<<"a variable">>, st)

\* the two BracedVariableVariable arms: the expression and the closing `}`
braced_variable_variable(start, st) ==
    Try(expressions_create(st), LAMBDA expr :
    Try(skip_right_brace(expr.state), LAMBDA end :
    Ok(end.state, [type |-> "BracedVariableVariable", start |-> start,
                   variable |-> expr.value, end |-> end.value])))

\* dynamic_variable returning the variable after a `$` without its layer
dynamic_variable_unwrapped(st) ==
    IF current(st).kind = "Variable"
    THEN Ok(next(st), [type |-> "SimpleVariable", span |-> current(st).span,
                       name |-> current(st).value])
    ELSE IF current(st).kind = "DollarLeftBrace"
    THEN braced_variable_variable(current(st).span, next(st))
    ELSE IF current(st).kind = "Dollar" /\ peek(st).kind = "LeftBrace"
    THEN braced_variable_variable(current(st).span, next(next(st)))
    ELSE IF current(st).kind = "Dollar"
    THEN dynamic_variable(next(st))
    ELSE expected_token_err(<<"a variable">>, st)

dynamic_variable(st) ==
    IF current(st).kind = "Variable"
    THEN Ok(next(st), [type |-> "SimpleVariable", span |-> current(st).span,
                       name |-> current(st).value])
    ELSE IF current(st).kind = "DollarLeftBrace"
    THEN braced_variable_variable(current(st).span, next(st))
    ELSE IF current(st).kind = "Dollar" /\ peek(st).kind = "LeftBrace"
    THEN braced_variable_variable(current(st).span, next(next(st)))
    ELSE IF current(st).kind = "Dollar"
    THEN
        Try(dynamic_variable(next(st)), LAMBDA variable :
        Ok(variable.state, [type |-> "VariableVariable",
                            span |-> current(st).span,
                            variable |-> variable.value]))
    ELSE expected_token_err(<<"a variable">>, st)

\* expressions::create, restricted to the expressions of this slice: a
\* variable (through dynamic_variable) or an integer literal.
expressions_create(st) ==
    IF current(st).kind \in {"Variable", "Dollar", "DollarLeftBrace"}
    THEN dynamic_variable(st)
    ELSE IF current(st).kind = "LiteralInteger"
    THEN Ok(next(st), [type |-> "LiteralInteger", value |-> current(st).value,
                       span |-> current(st).span])
    ELSE expected_token_err(<<"an expression">>, st)

(***************************************************************************)
(* 4.3 break / continue.                                                   *)
(***************************************************************************)
RECURSIVE loop_level(_)
\* loop_level returning the inner level without its parentheses
loop_level_flattened(st) ==
    IF current(st).kind = "LiteralInteger"
    THEN Ok(next(st), [type |-> "Literal",
                       literal |-> [type |-> "LiteralInteger",
                                    value |-> current(st).value,
                                    span |-> current(st).span]])
    ELSE
        Try(parenthesized(st, "loop_level"), LAMBDA p :
        Ok(p.state, p.value.inner))

loop_level(st) ==
    IF current(st).kind = "LiteralInteger"
    THEN Ok(next(st), [type |-> "Literal",
                       literal |-> [type |-> "LiteralInteger",
                                    value |-> current(st).value,
                                    span |-> current(st).span]])
    ELSE
        Try(parenthesized(st, "loop_level"), LAMBDA p :
        Ok(p.state, [type |-> "Parenthesized",
                     left_parenthesis |-> p.value.left,
                     level |-> p.value.inner,
                     right_parenthesis |-> p.value.right]))

\* maybe_loop_level taking only `;` for the absence of a level
maybe_loop_level_semicolon_only(st) ==
    IF current(st).kind = "SemiColon"
    THEN Ok(st, None)
    ELSE Try(loop_level(st), LAMBDA l : Ok(l.state, Some(l.value)))

maybe_loop_level(st) ==
    IF current(st).kind = "SemiColon" \/ current(st).kind = "CloseTag"
    THEN Ok(st, None)
    ELSE Try(loop_level(st), LAMBDA l : Ok(l.state, Some(l.value)))

continue_statement(st) ==
    Try(skip(st, "Continue"), LAMBDA continue :
    Try(maybe_loop_level(continue.state), LAMBDA level :
    Try(skip_ending(level.state), LAMBDA ending :
    Ok(ending.state, [type |-> "Continue", continue |-> continue.value,
                      level |-> level.value, ending |-> ending.value]))))

\* break_statement reading the ending without advancing past it
break_statement_ending_not_consumed(st) ==
    Try(skip(st, "Break"), LAMBDA break :
    Try(maybe_loop_level(break.state), LAMBDA level :
    Try(skip_ending(level.state), LAMBDA ending :
    Ok(level.state, [type |-> "Break", break |-> break.value,
                     level |-> level.value, ending |-> ending.value]))))

break_statement(st) ==
    Try(skip(st, "Break"), LAMBDA break :
    Try(maybe_loop_level(break.state), LAMBDA level :
    Try(skip_ending(level.state), LAMBDA ending :
    Ok(ending.state, [type |-> "Break", break |-> break.value,
                      level |-> level.value, ending |-> ending.value]))))

(***************************************************************************)
(* Statements and blocks, as far as the loop productions call them.        *)
(***************************************************************************)
RECURSIVE statement(_)

\* blocks::multiple_statements_until: statements up to the `until` kind.
RECURSIVE multiple_statements_loop(_, _, _)
multiple_statements_loop(st, until, block) ==
    IF current(st).kind = until
    THEN Ok(st, block)
    ELSE Try(statement(st), LAMBDA s :
         multiple_statements_loop(s.state, until, Append(block, s.value)))

multiple_statements_until(st, until) == multiple_statements_loop(st, until, <<>>)

(***************************************************************************)
(* 4.3 Loop productions.                                                   *)
(***************************************************************************)
\* lines 33-39 and 48-54: an `&` is consumed when it is the current token
optional_ampersand(st) ==
    IF current(st).kind = "Ampersand"
    THEN Ok(next(st), Some(current(st).span))
    ELSE Ok(st, None)

\* foreach_iterator without the swap of line 58
foreach_iterator_unswapped(st) ==
    Try(expressions_create(st), LAMBDA expression :
    Try(skip(expression.state, "As"), LAMBDA as :
    Try(optional_ampersand(as.state), LAMBDA ampersand :
    Try(expressions_create(ampersand.state), LAMBDA first :
    IF current(first.state).kind = "DoubleArrow"
    THEN
        Try(optional_ampersand(next(first.state)), LAMBDA shadowing :
        Try(expressions_create(shadowing.state), LAMBDA second :
        Ok(second.state, [type |-> "KeyAndValue",
                          expression |-> expression.value,
                          as |-> as.value, key |-> second.value,
                          double_arrow |-> current(first.state).span,
                          ampersand |-> shadowing.value,
                          value |-> first.value])))
    ELSE
        Ok(first.state, [type |-> "Value", expression |-> expression.value,
                         as |-> as.value, ampersand |-> ampersand.value,
                         value |-> first.value])))))

\* The closure foreach_statement passes to utils::parenthesized.  In the
\* `=>` arm the source binds `ampersand` again, which shadows the first
\* binding: KeyAndValue is built from the second one.  `value` holds the
\* first target and `key` the second until std::mem::swap exchanges them.
foreach_iterator(st) ==
    Try(expressions_create(st), LAMBDA expression :
    Try(skip(expression.state, "As"), LAMBDA as :
    Try(optional_ampersand(as.state), LAMBDA ampersand :
    Try(expressions_create(ampersand.state), LAMBDA first :
    IF current(first.state).kind = "DoubleArrow"
    THEN
        Try(optional_ampersand(next(first.state)), LAMBDA shadowing :
        Try(expressions_create(shadowing.state), LAMBDA second :
        Ok(second.state, [type |-> "KeyAndValue",
                          expression |-> expression.value,
                          as |-> as.value,
                          key |-> first.value,
                          double_arrow |-> current(first.state).span,
                          ampersand |-> shadowing.value,
                          value |-> second.value])))
    ELSE
        Ok(first.state, [type |-> "Value",
                         expression |-> expression.value,
                         as |-> as.value,
                         ampersand |-> ampersand.value,
                         value |-> first.value])))))

\* loop_body taking whatever follows the end keyword as the ending
loop_body_ending_unchecked(st, endKind) ==
    IF current(st).kind = "Colon"
    THEN
        Try(skip_colon(st), LAMBDA colon :
        Try(multiple_statements_until(colon.state, endKind), LAMBDA statements :
        Try(skip(statements.state, endKind), LAMBDA end :
        Ok(next(end.state),
           [type |-> "Block", colon |-> colon.value,
            statements |-> statements.value, end |-> end.value,
            ending |-> [type |-> "Semicolon",
                        span |-> current(end.state).span]]))))
    ELSE
        Try(statement(st), LAMBDA s :
        Ok(s.state, [type |-> "Statement", statement |-> s.value]))

\* The body of foreach (lines 78-89), for (130-141) and while (181-192):
\* `:` statements end-keyword ending, or one statement.  The span of the
\* end keyword is the field endforeach / endfor / endwhile of the source.
loop_body(st, endKind) ==
    IF current(st).kind = "Colon"
    THEN
        Try(skip_colon(st), LAMBDA colon :
        Try(multiple_statements_until(colon.state, endKind), LAMBDA statements :
        Try(skip(statements.state, endKind), LAMBDA end :
        Try(skip_ending(end.state), LAMBDA ending :
        Ok(ending.state, [type |-> "Block", colon |-> colon.value,
                          statements |-> statements.value,
                          end |-> end.value, ending |-> ending.value])))))
    ELSE
        Try(statement(st), LAMBDA s :
        Ok(s.state, [type |-> "Statement", statement |-> s.value]))

foreach_statement(st) ==
    Try(skip(st, "Foreach"), LAMBDA foreach :
    Try(parenthesized(foreach.state, "foreach_iterator"), LAMBDA p :
    Try(loop_body(p.state, "EndForeach"), LAMBDA body :
    Ok(body.state, [type |-> "Foreach", foreach |-> foreach.value,
                    left_parenthesis |-> p.value.left,
                    iterator |-> p.value.inner,
                    right_parenthesis |-> p.value.right,
                    body |-> body.value]))))

\* lines 105-115: a list of expressions up to `;`
for_list_semicolon(st) ==
    comma_separated_no_trailing(st, "expressions_create", "SemiColon")

\* for_iterator losing the commas of the third list
for_iterator_commas_dropped(st) ==
    Try(semicolon_terminated(st, "for_list_semicolon"), LAMBDA initializations :
    Try(semicolon_terminated(initializations.state, "for_list_semicolon"),
        LAMBDA conditions :
    Try(comma_separated_no_trailing(conditions.state, "expressions_create",
                                    "RightParen"), LAMBDA loop :
    Ok(loop.state,
       [type |-> "ForStatementIterator",
        initializations |-> initializations.value.inner,
        initializations_semicolon |-> initializations.value.semicolon,
        conditions |-> conditions.value.inner,
        conditions_semicolon |-> conditions.value.semicolon,
        loop |-> [inner |-> loop.value.inner, commas |-> <<>>]]))))

\* The closure for_statement passes to utils::parenthesized.
for_iterator(st) ==
    Try(semicolon_terminated(st, "for_list_semicolon"), LAMBDA initializations :
    Try(semicolon_terminated(initializations.state, "for_list_semicolon"),
        LAMBDA conditions :
    Try(comma_separated_no_trailing(conditions.state, "expressions_create",
                                    "RightParen"), LAMBDA loop :
    Ok(loop.state,
       [type |-> "ForStatementIterator",
        initializations |-> initializations.value.inner,
        initializations_semicolon |-> initializations.value.semicolon,
        conditions |-> conditions.value.inner,
        conditions_semicolon |-> conditions.value.semicolon,
        loop |-> loop.value]))))

for_statement(st) ==
    Try(skip(st, "For"), LAMBDA for :
    Try(parenthesized(for.state, "for_iterator"), LAMBDA p :
    Try(loop_body(p.state, "EndFor"), LAMBDA body :
    Ok(body.state, [type |-> "For", for |-> for.value,
                    left_parenthesis |-> p.value.left,
                    iterator |-> p.value.inner,
                    right_parenthesis |-> p.value.right,
                    body |-> body.value]))))

\* line 161: the closure do_while_statement passes to semicolon_terminated
parenthesized_expression(st) == parenthesized(st, "expressions_create")

do_while_statement(st) ==
    Try(skip(st, "Do"), LAMBDA do :
    Try(statement(do.state), LAMBDA body :
    Try(skip(body.state, "While"), LAMBDA while :
    Try(semicolon_terminated(while.state, "parenthesized_expression"), LAMBDA c :
    Ok(c.state, [type |-> "DoWhile", do |-> do.value, body |-> body.value,
                 while |-> while.value,
                 left_parenthesis |-> c.value.inner.left,
                 condition |-> c.value.inner.inner,
                 right_parenthesis |-> c.value.inner.right,
                 semicolon |-> c.value.semicolon])))))

while_statement(st) ==
    Try(skip(st, "While"), LAMBDA while :
    Try(parenthesized(while.state, "expressions_create"), LAMBDA p :
    Try(loop_body(p.state, "EndWhile"), LAMBDA body :
    Ok(body.state, [type |-> "While", while |-> while.value,
                    left_parenthesis |-> p.value.left,
                    condition |-> p.value.inner,
                    right_parenthesis |-> p.value.right,
                    body |-> body.value]))))

closure(inner, st) ==
    CASE inner = "loop_level" -> loop_level(st)
      [] inner = "foreach_iterator" -> foreach_iterator(st)
      [] inner = "for_list_semicolon" -> for_list_semicolon(st)
      [] inner = "for_iterator" -> for_iterator(st)
      [] inner = "parenthesized_expression" -> parenthesized_expression(st)
      [] inner = "expressions_create" -> expressions_create(st)

\* crate::statement, restricted to the statements of this slice.
statement(st) ==
    IF current(st).kind = "Foreach" THEN foreach_statement(st)
    ELSE IF current(st).kind = "For" THEN for_statement(st)
    ELSE IF current(st).kind = "Do" THEN do_while_statement(st)
    ELSE IF current(st).kind = "While" THEN while_statement(st)
    ELSE IF current(st).kind = "Break" THEN break_statement(st)
    ELSE IF current(st).kind = "Continue" THEN continue_statement(st)
    ELSE IF current(st).kind = "SemiColon"
    THEN Ok(next(st), [type |-> "Noop", span |-> current(st).span])
    ELSE IF current(st).kind = "LeftBrace"
    THEN
        Try(skip_left_brace(st), LAMBDA l :
        Try(multiple_statements_until(l.state, "RightBrace"), LAMBDA statements :
        Try(skip_right_brace(statements.state), LAMBDA r :
        Ok(r.state, [type |-> "BlockStatement", left_brace |-> l.value,
                     statements |-> statements.value,
                     right_brace |-> r.value]))))
    ELSE
        Try(expressions_create(st), LAMBDA e :
        Try(skip_ending(e.state), LAMBDA ending :
        Ok(ending.state, [type |-> "Expression", expression |-> e.value,
                          ending |-> ending.value])))

(***************************************************************************)
(* 4.4 Trait usage.                                                        *)
(***************************************************************************)
\* identifiers::full_type_name / identifier / name / type_identifier: one
\* identifier token.
SimpleIdentifier(st, expected) ==
    IF current(st).kind = "Identifier"
    THEN Ok(next(st), [type |-> "SimpleIdentifier",
                       span |-> current(st).span,
                       value |-> current(st).value])
    ELSE expected_token_err(<<expected>>, st)

full_type_name(st) == SimpleIdentifier(st, "an identifier")

identifier(st) == SimpleIdentifier(st, "an identifier")

name(st) == SimpleIdentifier(st, "an identifier")

type_identifier(st) == SimpleIdentifier(st, "an identifier")

RECURSIVE usage_traits(_, _)
\* usage_traits stepping over every `,`, whatever follows it
usage_traits_trailing_allowed(st, traits) ==
    IF current(st).kind # "SemiColon" /\ current(st).kind # "LeftBrace"
    THEN
        Try(full_type_name(st), LAMBDA t :
        IF current(t.state).kind = "Comma"
        THEN usage_traits(next(t.state), Append(traits, t.value))
        ELSE Ok(t.state, Append(traits, t.value)))
    ELSE Ok(st, traits)

\* lines 30-51: the trait names after `use`
usage_traits(st, traits) ==
    IF current(st).kind # "SemiColon" /\ current(st).kind # "LeftBrace"
    THEN
        Try(full_type_name(st), LAMBDA t :
        IF current(t.state).kind = "Comma"
        THEN
            IF peek(t.state).kind = "SemiColon"
            THEN Try(skip_semicolon(t.state), LAMBDA f :
                 usage_traits(f.state, Append(traits, t.value)))
            ELSE IF peek(t.state).kind = "LeftBrace"
            THEN Try(skip_left_brace(t.state), LAMBDA f :
                 usage_traits(f.state, Append(traits, t.value)))
            ELSE usage_traits(next(t.state), Append(traits, t.value))
        ELSE Ok(t.state, Append(traits, t.value)))
    ELSE Ok(st, traits)

\* lines 58-67: `[Trait::]method`
adaptation_target(st) ==
    IF peek(st).kind = "DoubleColon"
    THEN
        Try(full_type_name(st), LAMBDA trait :
        Try(identifier(next(trait.state)), LAMBDA m :
        Ok(m.state, [trait |-> Some(trait.value), method |-> m.value])))
    ELSE
        Try(identifier(st), LAMBDA m :
        Ok(m.state, [trait |-> None, method |-> m.value]))

\* adaptation_as taking every visibility keyword for a Visibility
\* adaptation, whatever follows it
adaptation_as_unpeeked(st, target) ==
    IF current(st).kind \in {"Public", "Protected", "Private"}
    THEN Ok(next(st),
            [type |-> "Visibility", trait |-> target.trait,
             method |-> target.method,
             visibility |-> [type |-> current(st).kind,
                             span |-> current(st).span]])
    ELSE
        Try(name(st), LAMBDA alias :
        Ok(alias.state, [type |-> "Alias", trait |-> target.trait,
                         method |-> target.method, alias |-> alias.value,
                         visibility |-> None]))

\* lines 70-107: the `as` arm, after expect_token! has consumed `as`
adaptation_as(st, target) ==
    IF current(st).kind \in {"Public", "Protected", "Private"}
    THEN
        IF current(next(st)).kind = "SemiColon"
        THEN Ok(next(st),
                [type |-> "Visibility", trait |-> target.trait,
                 method |-> target.method,
                 visibility |-> [type |-> current(st).kind,
                                 span |-> current(st).span]])
        ELSE
            Try(name(next(st)), LAMBDA alias :
            Ok(alias.state,
               [type |-> "Alias", trait |-> target.trait,
                method |-> target.method, alias |-> alias.value,
                visibility |-> Some([type |-> current(st).kind,
                                     span |-> current(st).span])]))
    ELSE
        Try(name(st), LAMBDA alias :
        Ok(alias.state, [type |-> "Alias", trait |-> target.trait,
                         method |-> target.method, alias |-> alias.value,
                         visibility |-> None]))

\* lines 122-136: the names after the first `,` of an insteadof list
RECURSIVE insteadof_rest(_, _)
insteadof_rest(st, insteadof) ==
    IF current(st).kind # "SemiColon"
    THEN
        Try(full_type_name(st), LAMBDA t :
        IF current(t.state).kind = "Comma"
        THEN
            IF peek(t.state).kind = "SemiColon"
            THEN Try(skip_semicolon(t.state), LAMBDA f :
                 insteadof_rest(f.state, Append(insteadof, t.value)))
            ELSE insteadof_rest(next(t.state), Append(insteadof, t.value))
        ELSE Ok(t.state, Append(insteadof, t.value)))
    ELSE Ok(st, insteadof)

\* lines 113-118: on a `,` followed by `;`, skip_semicolon is called
insteadof_first_comma(st) ==
    IF peek(st).kind = "SemiColon" THEN skip_semicolon(st) ELSE Ok(st, 0)

\* lines 108-144: the `insteadof` arm, after expect_token! has consumed it
adaptation_insteadof(st, target) ==
    Try(full_type_name(st), LAMBDA first :
    Try(IF current(first.state).kind = "Comma"
        THEN Try(insteadof_first_comma(first.state), LAMBDA f :
             insteadof_rest(next(f.state), <<first.value>>))
        ELSE Ok(first.state, <<first.value>>), LAMBDA insteadof :
    Ok(insteadof.state, [type |-> "Precedence", trait |-> target.trait,
                         method |-> target.method,
                         insteadof |-> insteadof.value])))

\* lines 69-145: expect_token! matches the current kind, advances, and runs
\* the arm of that kind
adaptation(st, target) ==
    IF current(st).kind = "As"
    THEN adaptation_as(next(st), target)
    ELSE IF current(st).kind = "Insteadof"
    THEN adaptation_insteadof(next(st), target)
    ELSE expected_token_err(<<"As", "Insteadof">>, st)

\* lines 57-148: the adaptations between `{` and `}`
RECURSIVE usage_adaptations(_, _)
usage_adaptations(st, adaptations) ==
    IF current(st).kind # "RightBrace"
    THEN
        Try(adaptation_target(st), LAMBDA target :
        Try(adaptation(target.state, target.value), LAMBDA a :
        Try(skip_semicolon(a.state), LAMBDA semi :
        usage_adaptations(semi.state, Append(adaptations, a.value)))))
    ELSE Ok(st, adaptations)

\* lines 53-153: `{` adaptations `}`, or `;`
usage_body(st) ==
    IF current(st).kind = "LeftBrace"
    THEN
        Try(skip_left_brace(st), LAMBDA l :
        Try(usage_adaptations(l.state, <<>>), LAMBDA a :
        Try(skip_right_brace(a.state), LAMBDA r :
        Ok(r.state, a.value))))
    ELSE
        Try(skip_semicolon(st), LAMBDA semi : Ok(semi.state, <<>>))

usage(st) ==
    Try(skip(st, "Use"), LAMBDA span :
    Try(usage_traits(span.state, <<>>), LAMBDA traits :
    Try(usage_body(traits.state), LAMBDA adaptations :
    Ok(adaptations.state, [type |-> "TraitUsage", use |-> span.value,
                           traits |-> traits.value,
                           adaptations |-> adaptations.value]))))

(***************************************************************************)
(* 4.4 Trait declaration: the member productions `member` calls, as far    *)
(* as the design describes them, then `member` and `parse`.                *)
(***************************************************************************)
\* attributes::gather_attributes: zero or more groups `#[ name ]`, kept in
\* the state's pending attributes; the value tells whether any was read.
RECURSIVE gather_attributes_loop(_, _)
gather_attributes_loop(st, any) ==
    IF current(st).kind # "Attribute"
    THEN Ok(st, any)
    ELSE
        Try(identifier(next(st)), LAMBDA n :
        Try(skip(n.state, "RightBracket"), LAMBDA end :
        gather_attributes_loop(
            [end.state EXCEPT !.attributes =
                Append(@, [start |-> current(st).span, name |-> n.value,
                           end |-> end.value])],
            TRUE)))

gather_attributes(st) == gather_attributes_loop(st, FALSE)

\* State::get_attributes: takes the pending attributes.
get_attributes(st) == Ok([st EXCEPT !.attributes = <<>>], st.attributes)

ModifierKinds ==
    {"Public", "Protected", "Private", "Static", "Abstract", "Final", "Readonly"}

\* modifiers::collect
RECURSIVE modifiers_collect_loop(_, _)
modifiers_collect_loop(st, collected) ==
    IF current(st).kind \in ModifierKinds
    THEN modifiers_collect_loop(
             next(st),
             Append(collected,
                    [type |-> current(st).kind, span |-> current(st).span]))
    ELSE Ok(st, collected)

modifiers_collect(st) == modifiers_collect_loop(st, <<>>)

\* the first modifier of a group that its member kind does not allow
FirstDisallowed(modifiers, allowed) ==
    CHOOSE i \in 1..Len(modifiers) :
        /\ modifiers[i].type \notin allowed
        /\ \A j \in 1..(i - 1) : modifiers[j].type \in allowed

\* modifiers::constant_group / method_group / property_group: a group is
\* rejected when it holds a modifier its member kind does not allow.
modifier_group(st, modifiers, allowed) ==
    IF \E i \in 1..Len(modifiers) : modifiers[i].type \notin allowed
    THEN Err(st, [expected |-> <<"a valid modifier">>,
                  found |-> modifiers[FirstDisallowed(modifiers, allowed)].type,
                  span |-> modifiers[FirstDisallowed(modifiers, allowed)].span])
    ELSE Ok(st, modifiers)

constant_group(st, modifiers) ==
    modifier_group(st, modifiers, {"Final", "Public", "Protected", "Private"})

method_group(st, modifiers) ==
    modifier_group(st, modifiers, ModifierKinds \ {"Readonly"})

property_group(st, modifiers) ==
    modifier_group(st, modifiers,
                   {"Readonly", "Static", "Public", "Protected", "Private"})

\* properties::parse_var: `var $name ;`
parse_var(st) ==
    Try(skip(st, "Var"), LAMBDA var :
    Try(get_attributes(var.state), LAMBDA a :
    Try(simple_variable(a.state), LAMBDA variable :
    Try(skip_semicolon(variable.state), LAMBDA end :
    Ok(end.state, [type |-> "VariableProperty", attributes |-> a.value,
                   var |-> var.value, variable |-> variable.value,
                   end |-> end.value])))))

\* properties::parse: `modifiers $name ;`
properties_parse(st, modifiers) ==
    Try(get_attributes(st), LAMBDA a :
    Try(simple_variable(a.state), LAMBDA variable :
    Try(skip_semicolon(variable.state), LAMBDA end :
    Ok(end.state, [type |-> "Property", attributes |-> a.value,
                   modifiers |-> modifiers, variable |-> variable.value,
                   end |-> end.value]))))

\* constants::classish: `modifiers const NAME = expr ;`
constants_classish(st, modifiers) ==
    Try(get_attributes(st), LAMBDA a :
    Try(skip(a.state, "Const"), LAMBDA const :
    Try(identifier(const.state), LAMBDA n :
    Try(skip(n.state, "Equals"), LAMBDA equals :
    Try(expressions_create(equals.state), LAMBDA v :
    Try(skip_semicolon(v.state), LAMBDA end :
    Ok(end.state, [type |-> "Constant", attributes |-> a.value,
                   modifiers |-> modifiers, const |-> const.value,
                   name |-> n.value, equals |-> equals.value,
                   value |-> v.value, end |-> end.value])))))))

\* the body of a method: `;` (abstract) or `{ }` (concrete)
method_body(st) ==
    IF current(st).kind = "SemiColon"
    THEN Ok(next(st), [abstract |-> TRUE, spans |-> <<current(st).span>>])
    ELSE
        Try(skip_left_brace(st), LAMBDA l :
        Try(skip_right_brace(l.state), LAMBDA r :
        Ok(r.state, [abstract |-> FALSE, spans |-> <<l.value, r.value>>])))

\* the Method variant: by the body, and by the name __construct
MethodVariant(abstract, n) ==
    IF n = "__construct"
    THEN (IF abstract THEN "AbstractConstructor" ELSE "ConcreteConstructor")
    ELSE (IF abstract THEN "AbstractMethod" ELSE "ConcreteMethod")

\* functions::method: `modifiers function name ( ) body`
method(st, modifiers) ==
    Try(get_attributes(st), LAMBDA a :
    Try(skip(a.state, "Function"), LAMBDA function :
    Try(identifier(function.state), LAMBDA n :
    Try(skip(n.state, "LeftParen"), LAMBDA l :
    Try(skip(l.state, "RightParen"), LAMBDA r :
    Try(method_body(r.state), LAMBDA body :
    Ok(body.state, [type |-> MethodVariant(body.value.abstract, n.value.value),
                    attributes |-> a.value, modifiers |-> modifiers,
                    function |-> function.value, name |-> n.value,
                    left_parenthesis |-> l.value,
                    right_parenthesis |-> r.value,
                    body |-> body.value.spans])))))))

\* lines 198-226: after the attributes, `use` and `var` were considered
member_with_modifiers(st, modifiers) ==
    IF current(st).kind = "Const"
    THEN Try(constant_group(st, modifiers), LAMBDA g :
         constants_classish(st, g.value))
    ELSE IF current(st).kind = "Function"
    THEN Try(method_group(st, modifiers), LAMBDA g : method(st, g.value))
    ELSE Try(property_group(st, modifiers), LAMBDA g :
         properties_parse(st, g.value))

\* member calling usage on every `use`, attributes or not
member_use_after_attributes(st, class_name) ==
    Try(gather_attributes(st), LAMBDA has_attributes :
    IF current(has_attributes.state).kind = "Use"
    THEN Try(usage(has_attributes.state), LAMBDA u :
         Ok(u.state, [type |-> "TraitUsageMember", usage |-> u.value]))
    ELSE IF current(has_attributes.state).kind = "Var"
    THEN parse_var(has_attributes.state)
    ELSE Try(modifiers_collect(has_attributes.state), LAMBDA modifiers :
         member_with_modifiers(modifiers.state, modifiers.value)))

member(st, class_name) ==
    Try(gather_attributes(st), LAMBDA has_attributes :
    IF ~has_attributes.value /\ current(has_attributes.state).kind = "Use"
    THEN Try(usage(has_attributes.state), LAMBDA u :
         Ok(u.state, [type |-> "TraitUsageMember", usage |-> u.value]))
    ELSE IF current(has_attributes.state).kind = "Var"
    THEN parse_var(has_attributes.state)
    ELSE Try(modifiers_collect(has_attributes.state), LAMBDA modifiers :
         member_with_modifiers(modifiers.state, modifiers.value)))

\* lines 171-173: the members up to `}` or the end of the file
RECURSIVE members_loop(_, _, _)
members_loop(st, class_name, members) ==
    IF current(st).kind # "RightBrace" /\ ~is_eof(st)
    THEN Try(member(st, class_name), LAMBDA m :
         members_loop(m.state, class_name, Append(members, m.value)))
    ELSE Ok(st, members)

parse(st) ==
    Try(skip(st, "Trait"), LAMBDA span :
    Try(type_identifier(span.state), LAMBDA n :
    Try(get_attributes(n.state), LAMBDA attributes :
    Try(skip_left_brace(attributes.state), LAMBDA left_brace :
    Try(members_loop(left_brace.state, n.value, <<>>), LAMBDA members :
    Try(skip_right_brace(members.state), LAMBDA right_brace :
    Ok(right_brace.state,
       [type |-> "Trait", trait |-> span.value, name |-> n.value,
        attributes |-> attributes.value,
        body |-> [left_brace |-> left_brace.value,
                  members |-> members.value,
                  right_brace |-> right_brace.value]])))))))

(***************************************************************************)
(* 4.4 The trait productions turn by turn: what one turn of each loop of   *)
(* usage does, and the straight-line code between the loops.  The value    *)
(* of a turn says whether the loop goes on.                                *)
(***************************************************************************)
\* line 30: the test of the trait-name loop
in_trait_names(st) ==
    current(st).kind # "SemiColon" /\ current(st).kind # "LeftBrace"

\* a turn of the trait-name loop that reads the name without stepping
\* over it
trait_name_iteration_peeked(st) ==
    Try(full_type_name(st), LAMBDA t :
    Ok(st, [item |-> t.value, again |-> FALSE]))

\* lines 33-50: one turn of the trait-name loop
trait_name_iteration(st) ==
    Try(full_type_name(st), LAMBDA t :
    IF current(t.state).kind = "Comma"
    THEN
        IF peek(t.state).kind = "SemiColon"
        THEN Try(skip_semicolon(t.state), LAMBDA f :
             Ok(f.state, [item |-> t.value, again |-> TRUE]))
        ELSE IF peek(t.state).kind = "LeftBrace"
        THEN Try(skip_left_brace(t.state), LAMBDA f :
             Ok(f.state, [item |-> t.value, again |-> TRUE]))
        ELSE Ok(next(t.state), [item |-> t.value, again |-> TRUE])
    ELSE Ok(t.state, [item |-> t.value, again |-> FALSE]))

\* lines 123-135: one turn of the insteadof loop
insteadof_iteration(st) ==
    Try(full_type_name(st), LAMBDA t :
    IF current(t.state).kind = "Comma"
    THEN
        IF peek(t.state).kind = "SemiColon"
        THEN Try(skip_semicolon(t.state), LAMBDA f :
             Ok(f.state, [item |-> t.value, again |-> TRUE]))
        ELSE Ok(next(t.state), [item |-> t.value, again |-> TRUE])
    ELSE Ok(t.state, [item |-> t.value, again |-> FALSE]))

\* lines 108-120: the insteadof arm up to its loop; without a `,` the
\* adaptation is complete
insteadof_begin(st, target) ==
    Try(full_type_name(st), LAMBDA first :
    IF current(first.state).kind = "Comma"
    THEN Try(insteadof_first_comma(first.state), LAMBDA f :
         Ok(next(f.state), [complete |-> FALSE, target |-> target,
                            insteadof |-> <<first.value>>]))
    ELSE Ok(first.state,
            [complete |-> TRUE,
             adaptation |-> [type |-> "Precedence", trait |-> target.trait,
                             method |-> target.method,
                             insteadof |-> <<first.value>>]]))

\* lines 69-145 of one turn of the adaptation loop, up to the insteadof
\* loop when the arm has one
adaptation_arm(st, target) ==
    IF current(st).kind = "As"
    THEN Try(adaptation_as(next(st), target), LAMBDA a :
         Ok(a.state, [complete |-> TRUE, adaptation |-> a.value]))
    ELSE IF current(st).kind = "Insteadof"
    THEN insteadof_begin(next(st), target)
    ELSE expected_token_err(<<"As", "Insteadof">>, st)

\* lines 58-147: one turn of the adaptation loop; a complete adaptation is
\* followed by its `;` (line 147)
adaptation_iteration(st) ==
    Try(adaptation_target(st), LAMBDA target :
    Try(adaptation_arm(target.state, target.value), LAMBDA a :
    IF a.value.complete
    THEN Try(skip_semicolon(a.state), LAMBDA semi : Ok(semi.state, a.value))
    ELSE a))

\* line 171: the test of the member loop
in_members(st) == current(st).kind # "RightBrace" /\ ~is_eof(st)

\* lines 188-192: member hands over to usage
member_is_usage(st) ==
    /\ gather_attributes(st).ok
    /\ ~gather_attributes(st).value
    /\ current(gather_attributes(st).state).kind = "Use"

\* lines 163-168: `trait` name `{`
trait_header(st) ==
    Try(skip(st, "Trait"), LAMBDA span :
    Try(type_identifier(span.state), LAMBDA n :
    Try(get_attributes(n.state), LAMBDA attributes :
    Try(skip_left_brace(attributes.state), LAMBDA left_brace :
    Ok(left_brace.state,
       [trait |-> span.value, name |-> n.value,
        attributes |-> attributes.value,
        left_brace |-> left_brace.value])))))

(***************************************************************************)
(* The spans an AST node stores, in itself and in its descendants: one     *)
(* case per node type, listing the fields of type Span, Option<Span> and   *)
(* Vec<Span>, and the fields that hold nodes.                              *)
(***************************************************************************)
Range(seq) == {seq[i] : i \in 1..Len(seq)}

RECURSIVE Spans(_)
\* Option<node>, Vec<node>
SpansOfAll(nodes) == UNION {Spans(nodes[i]) : i \in 1..Len(nodes)}

SpansOfAttributes(groups) ==
    UNION {{groups[i].start, groups[i].end} \cup Spans(groups[i].name) :
           i \in 1..Len(groups)}

Spans(n) ==
    CASE n.type \in {"LiteralInteger", "SimpleVariable", "SimpleIdentifier",
                     "Noop", "Semicolon", "CloseTag"} \cup ModifierKinds ->
            {n.span}
      [] n.type = "VariableVariable" -> {n.span} \cup Spans(n.variable)
      [] n.type = "BracedVariableVariable" ->
            {n.start, n.end} \cup Spans(n.variable)
      [] n.type = "Literal" -> Spans(n.literal)
      [] n.type = "Parenthesized" ->
            {n.left_parenthesis, n.right_parenthesis} \cup Spans(n.level)
      [] n.type = "Break" ->
            {n.break} \cup SpansOfAll(n.level) \cup Spans(n.ending)
      [] n.type = "Continue" ->
            {n.continue} \cup SpansOfAll(n.level) \cup Spans(n.ending)
      [] n.type = "Value" ->
            Spans(n.expression) \cup {n.as} \cup Range(n.ampersand)
                \cup Spans(n.value)
      [] n.type = "KeyAndValue" ->
            Spans(n.expression) \cup {n.as} \cup Range(n.ampersand)
                \cup Spans(n.key) \cup {n.double_arrow} \cup Spans(n.value)
      [] n.type = "Statement" -> Spans(n.statement)
      [] n.type = "Block" ->
            {n.colon, n.end} \cup SpansOfAll(n.statements) \cup Spans(n.ending)
      [] n.type = "Foreach" ->
            {n.foreach, n.left_parenthesis, n.right_parenthesis}
                \cup Spans(n.iterator) \cup Spans(n.body)
      [] n.type = "ForStatementIterator" ->
            SpansOfAll(n.initializations.inner)
                \cup Range(n.initializations.commas)
                \cup {n.initializations_semicolon}
                \cup SpansOfAll(n.conditions.inner)
                \cup Range(n.conditions.commas)
                \cup {n.conditions_semicolon}
                \cup SpansOfAll(n.loop.inner) \cup Range(n.loop.commas)
      [] n.type = "For" ->
            {n.for, n.left_parenthesis, n.right_parenthesis}
                \cup Spans(n.iterator) \cup Spans(n.body)
      [] n.type = "DoWhile" ->
            {n.do, n.while, n.left_parenthesis, n.right_parenthesis,
             n.semicolon} \cup Spans(n.body) \cup Spans(n.condition)
      [] n.type = "While" ->
            {n.while, n.left_parenthesis, n.right_parenthesis}
                \cup Spans(n.condition) \cup Spans(n.body)
      [] n.type = "BlockStatement" ->
            {n.left_brace, n.right_brace} \cup SpansOfAll(n.statements)
      [] n.type = "Expression" -> Spans(n.expression) \cup Spans(n.ending)
      [] n.type = "Visibility" ->
            SpansOfAll(n.trait) \cup Spans(n.method) \cup Spans(n.visibility)
      [] n.type = "Alias" ->
            SpansOfAll(n.trait) \cup Spans(n.method) \cup Spans(n.alias)
                \cup SpansOfAll(n.visibility)
      [] n.type = "Precedence" ->
            SpansOfAll(n.trait) \cup Spans(n.method) \cup SpansOfAll(n.insteadof)
      [] n.type = "TraitUsage" ->
            {n.use} \cup SpansOfAll(n.traits) \cup SpansOfAll(n.adaptations)
      [] n.type = "TraitUsageMember" -> Spans(n.usage)
      [] n.type = "VariableProperty" ->
            SpansOfAttributes(n.attributes) \cup {n.var, n.end}
                \cup Spans(n.variable)
      [] n.type = "Property" ->
            SpansOfAttributes(n.attributes) \cup SpansOfAll(n.modifiers)
                \cup Spans(n.variable) \cup {n.end}
      [] n.type = "Constant" ->
            SpansOfAttributes(n.attributes) \cup SpansOfAll(n.modifiers)
                \cup {n.const, n.equals, n.end} \cup Spans(n.name)
                \cup Spans(n.value)
      [] n.type \in {"AbstractMethod", "ConcreteMethod", "AbstractConstructor",
                     "ConcreteConstructor"} ->
            SpansOfAttributes(n.attributes) \cup SpansOfAll(n.modifiers)
                \cup {n.function, n.left_parenthesis, n.right_parenthesis}
                \cup Spans(n.name) \cup Range(n.body)
      [] n.type = "Trait" ->
            {n.trait, n.body.left_brace, n.body.right_brace} \cup Spans(n.name)
                \cup SpansOfAttributes(n.attributes)
                \cup SpansOfAll(n.body.members)
      [] OTHER -> {}

(***************************************************************************)
(* Node traversal (pxp-ast): children() of the loop nodes, one case per    *)
(* impl Node of loops.rs.  A Vec of references is a sequence of nodes.     *)
(* Nodes whose impl lies outside loops.rs are not followed.                *)
(***************************************************************************)
RECURSIVE children(_)
children(n) ==
    CASE n.type = "Foreach" -> <<n.iterator, n.body>>
      [] n.type = "Value" -> <<n.expression, n.value>>
      [] n.type = "KeyAndValue" -> <<n.expression, n.key, n.value>>
      [] n.type = "Statement" -> <<n.statement>>
      [] n.type = "Block" -> n.statements
      [] n.type = "For" -> <<n.iterator, n.body>>
      [] n.type = "ForStatementIterator" ->
            n.initializations.inner \o n.conditions.inner \o n.loop.inner
      [] n.type = "DoWhile" -> <<n.body, n.condition>>
      [] n.type = "While" -> <<n.condition, n.body>>
      [] n.type = "Literal" -> <<n.literal>>
      [] n.type = "Parenthesized" -> children(n.level)
      [] n.type = "Break" -> IF n.level = None THEN <<>> ELSE <<n.level[1]>>
      [] n.type = "Continue" -> IF n.level = None THEN <<>> ELSE <<n.level[1]>>
      [] OTHER -> <<>>

(***************************************************************************)
(* 6 Lexer errors (pxp-lexer error.rs).  A SyntaxError is a record of its   *)
(* kind, its span and, for three kinds, a datum.  A rendered message is    *)
(* the sequence of the pieces write! puts out: the literal text of the     *)
(* format string, cut at the placeholders and before the words `on line`   *)
(* and `column`, and the renderings of the arguments.  The grave accents   *)
(* around the character of UnexpectedCharacter are left out of the text.   *)
(***************************************************************************)
NoSyntaxError == [kind |-> "none"]

\* no trait production is running
NoFrame == [pc |-> "none"]

\* the kinds that carry a span only
PlainKinds ==
    {"UnexpectedEndOfFile", "UnexpectedError", "InvalidHaltCompiler",
     "InvalidOctalEscape", "InvalidOctalLiteral", "InvalidUnicodeEscape",
     "UnpredictableState", "InvalidDocIndentation"}

\* the kinds that carry a byte
ByteKinds == {"UnexpectedCharacter", "UnrecognisedToken"}

\* the bytes explored: `$` and `a`
Bytes == {36, 97}

Positions == [line : 1..MaxLine, column : 1..MaxColumn]

\* a span starts and ends on a position, the end not before the start
SpanValues ==
    {sp \in [start : Positions, end : Positions] :
        \/ sp.start.line < sp.end.line
        \/ sp.start.line = sp.end.line /\ sp.start.column <= sp.end.column}

SyntaxErrors ==
    [kind : PlainKinds, span : SpanValues]
        \cup [kind : ByteKinds, datum : Bytes, span : SpanValues]
        \cup [kind : {"InvalidDocBodyIndentationLevel"},
              datum : 0..MaxIndentation, span : SpanValues]

\* `{:?}` of `*char as char`: the character between single quotes
DebugChar(byte) == IF byte = 36 THEN "'$'" ELSE "'a'"

\* the text each span-only kind is reported with
MessageOf(kind) ==
    CASE kind = "UnexpectedEndOfFile" -> "Syntax Error: unexpected end of file"
      [] kind = "UnexpectedError" -> "Syntax Error: unexpected error"
      [] kind = "InvalidHaltCompiler" -> "Syntax Error: invalid halt compiler"
      [] kind = "InvalidOctalEscape" -> "Syntax Error: invalid octal escape"
      [] kind = "InvalidOctalLiteral" -> "Syntax Error: invalid octal literal"
      [] kind = "InvalidUnicodeEscape" -> "Syntax Error: invalid unicode escape"
      [] kind = "UnpredictableState" ->
            "Syntax Error: Reached an unpredictable state"

\* SyntaxError::span: every arm returns the span of its variant
SyntaxError_span(e) ==
    CASE e.kind \in PlainKinds -> e.span
      [] e.kind \in ByteKinds -> e.span
      [] e.kind = "InvalidDocBodyIndentationLevel" -> e.span

\* Display::fmt
SyntaxError_fmt(e) ==
    CASE e.kind = "UnexpectedCharacter" ->
            <<"Syntax Error: unexpected character ", DebugChar(e.datum),
              " on line ", ToString(e.span.start.line),
              " column ", ToString(e.span.start.column)>>
      [] e.kind = "InvalidDocIndentation" ->
            <<"Syntax Error: Invalid indentation - cannot use tabs and spaces",
              " on line ", ToString(e.span.start.line)>>
      [] e.kind = "InvalidDocBodyIndentationLevel" ->
            <<"Syntax Error: Invalid body indentation level - expecting an indentation level of at least ",
              ToString(e.datum),
              " on line ", ToString(e.span.start.line)>>
      [] e.kind = "UnrecognisedToken" ->
            <<"Syntax Error: Unrecognised token ", ToString(e.datum),
              " on line ", ToString(e.span.start.line),
              " column ", ToString(e.span.start.column)>>
      [] OTHER ->
            <<MessageOf(e.kind),
              " on line ", ToString(e.span.start.line),
              " column ", ToString(e.span.start.column)>>

(***************************************************************************)
(* Inputs: sets of lexeme sequences.  The family of a production holds     *)
(* its well-formed phrases up to the bounds, and every phrase obtained     *)
(* from one of them by deleting one token or by replacing one token with   *)
(* another token of the family.                                            *)
(***************************************************************************)
Cat(A, B) == {a \o b : a \in A, b \in B}

Opt(A) == A \cup {<<>>}

RECURSIVE Repeat(_, _)
Repeat(tok, n) == IF n = 0 THEN <<>> ELSE <<tok>> \o Repeat(tok, n - 1)

\* the sequences of at most n phrases of A
RECURSIVE UpTo(_, _)
UpTo(A, n) == IF n = 0 THEN {<<>>} ELSE {<<>>} \cup Cat(A, UpTo(A, n - 1))

Delete(s, i) == SubSeq(s, 1, i - 1) \o SubSeq(s, i + 1, Len(s))

Replace(s, i, tok) == [s EXCEPT ![i] = tok]

Perturbed(A, noise) ==
    A \cup UNION {{Delete(s, i) : i \in 1..Len(s)} : s \in A}
      \cup UNION {{Replace(s, i, tok) : i \in 1..Len(s), tok \in noise} : s \in A}

TSemi == Tok("SemiColon", ";")
TCloseTag == Tok("CloseTag", "?>")
TLParen == Tok("LeftParen", "(")
TRParen == Tok("RightParen", ")")
TLBrace == Tok("LeftBrace", "{")
TRBrace == Tok("RightBrace", "}")
TComma == Tok("Comma", ",")
TColon == Tok("Colon", ":")
TAmp == Tok("Ampersand", "&")
TArrow == Tok("DoubleArrow", "=>")
TAs == Tok("As", "as")
TBreak == Tok("Break", "break")
TContinue == Tok("Continue", "continue")
TDollar == Tok("Dollar", "$")
TDollarLeftBrace == Tok("DollarLeftBrace", "${")
TDoubleColon == Tok("DoubleColon", "::")
TInsteadof == Tok("Insteadof", "insteadof")
TUse == Tok("Use", "use")
TInt(n) == Tok("LiteralInteger", n)
TVar(n) == Tok("Variable", n)
TIdent(n) == Tok("Identifier", n)
TKeyword(kind) == Tok(kind, kind)

LevelInputs ==
    {Repeat(TLParen, a) \o mid \o Repeat(TRParen, b) :
        a \in 0..MaxDepth, b \in 0..MaxDepth,
        mid \in {<<>>, <<TInt("1")>>, <<TInt("2")>>, <<TVar("$a")>>}}

EndingInputs == {<<TSemi>>, <<TCloseTag>>, <<>>, <<TRParen>>}

\* what may follow a first statement `break;` in the same file
FollowingInputs ==
    {<<TContinue, TInt("2"), TSemi>>,
     <<TBreak, TLParen, TInt("1"), TRParen, TCloseTag>>,
     <<TKeyword("Foreach"), TLParen, TVar("$xs"), TAs, TVar("$v"), TRParen, TSemi>>,
     <<TKeyword("For"), TLParen, TSemi, TSemi, TRParen, TSemi>>,
     <<TKeyword("Do"), TSemi, TKeyword("While"), TLParen, TInt("1"), TRParen, TSemi>>,
     <<TKeyword("While"), TLParen, TInt("1"), TRParen, TSemi>>,
     <<TUse, TIdent("A"), TSemi>>,
     <<TKeyword("Trait"), TIdent("T"), TLBrace, TRBrace>>,
     <<TDollar, TVar("$x")>>}

BreakInputs ==
    Cat({<<TBreak>>, <<>>}, Cat(LevelInputs, EndingInputs))
        \cup Cat({<<TBreak, TSemi>>}, FollowingInputs)

ContinueInputs ==
    Cat({<<TContinue>>, <<>>}, Cat(LevelInputs, EndingInputs))

StatementInputs ==
    {<<TSemi>>, <<TBreak, TSemi>>, <<TVar("$s"), TSemi>>, <<TLBrace, TRBrace>>}

BlockInputs(endKind) ==
    Cat({<<TColon>>},
        Cat(UpTo({<<TSemi>>, <<TBreak, TSemi>>}, MaxStatements),
            Cat({<<TKeyword(endKind)>>}, {<<TSemi>>, <<TCloseTag>>})))

BodyInputs(endKind) == StatementInputs \cup BlockInputs(endKind)

ForeachWellFormed ==
    Cat({<<TKeyword("Foreach"), TLParen, TVar("$xs"), TAs>>},
    Cat(Opt({<<TAmp>>}),
    Cat({<<TVar("$k")>>},
    Cat(Opt(Cat({<<TArrow>>}, Cat(Opt({<<TAmp>>}), {<<TVar("$v")>>}))),
    Cat({<<TRParen>>}, BodyInputs("EndForeach"))))))

\* with a block closed by the end keyword of another loop
ForeachInputs ==
    Perturbed(ForeachWellFormed, {TComma, TColon, TAmp, TArrow})
        \cup {<<TKeyword("Foreach"), TLParen, TVar("$xs"), TAs, TVar("$v"),
                TRParen, TColon, TKeyword("EndWhile"), TSemi>>}

\* the comma-separated lists of at most n expressions
RECURSIVE ListInputs(_)
ListInputs(n) ==
    IF n = 0 THEN {<<>>}
    ELSE IF n = 1 THEN {<<>>, <<TVar("$i")>>}
    ELSE ListInputs(n - 1) \cup
         {l \o <<TComma, TInt("1")>> : l \in ListInputs(n - 1) \ {<<>>}}

ForWellFormed ==
    Cat({<<TKeyword("For"), TLParen>>},
    Cat(ListInputs(MaxList),
    Cat({<<TSemi>>},
    Cat(ListInputs(MaxList),
    Cat({<<TSemi>>},
    Cat(ListInputs(MaxList),
    Cat({<<TRParen>>},
        {<<TSemi>>, <<TLBrace, TRBrace>>,
         <<TColon, TKeyword("EndFor"), TSemi>>,
         <<TColon, TBreak, TSemi, TKeyword("EndFor"), TCloseTag>>})))))))

ForInputs ==
    Perturbed(ForWellFormed, {TComma, TSemi})
        \cup {<<TKeyword("For"), TLParen, TSemi, TSemi, TRParen, TColon,
                TKeyword("EndForeach"), TSemi>>}

DoWhileWellFormed ==
    Cat({<<TKeyword("Do")>>},
    Cat(StatementInputs,
    Cat({<<TKeyword("While"), TLParen>>},
    Cat({<<TInt("1")>>, <<TVar("$c")>>},
        {<<TRParen, TSemi>>, <<TRParen, TCloseTag>>}))))

DoWhileInputs == Perturbed(DoWhileWellFormed, {TComma, TColon, TSemi})

WhileWellFormed ==
    Cat({<<TKeyword("While"), TLParen>>},
    Cat({<<TInt("1")>>, <<TVar("$c")>>},
    Cat({<<TRParen>>}, BodyInputs("EndWhile"))))

WhileInputs ==
    Perturbed(WhileWellFormed, {TComma, TColon, TSemi})
        \cup {<<TKeyword("While"), TLParen, TInt("1"), TRParen, TColon,
                TKeyword("EndFor"), TSemi>>}

\* the comma-separated lists of 1..n trait names
RECURSIVE NameInputs(_)
NameInputs(n) ==
    IF n <= 1 THEN {<<TIdent("A")>>}
    ELSE NameInputs(n - 1) \cup
         {l \o <<TComma, TIdent("B")>> : l \in NameInputs(n - 1)}

AdaptationInputs ==
    {<<TIdent("A"), TDoubleColon, TIdent("m"), TInsteadof, TIdent("B"), TSemi>>,
     <<TIdent("m"), TInsteadof, TIdent("B"), TSemi>>,
     <<TIdent("m"), TAs, TKeyword("Private"), TSemi>>,
     <<TIdent("B"), TDoubleColon, TIdent("m"), TAs, TKeyword("Protected"),
       TIdent("n"), TSemi>>,
     <<TIdent("m"), TAs, TIdent("n"), TSemi>>}

UsageWellFormed ==
    Cat({<<TUse>>},
    Cat(NameInputs(MaxTraits),
        {<<TSemi>>} \cup
        Cat({<<TLBrace>>},
            Cat(UpTo(AdaptationInputs, MaxAdaptations), {<<TRBrace>>}))))
    \cup {<<TUse, TIdent("A"), TLBrace, TIdent("A"), TDoubleColon, TIdent("m"),
            TInsteadof, TIdent("B"), TComma, TIdent("C"), TComma, TIdent("D"),
            TSemi, TRBrace>>}

UsageInputs ==
    Perturbed(UsageWellFormed, {TComma, TSemi}) \cup {<<TUse, TLBrace, TRBrace>>}

MemberInputs ==
    {<<TUse, TIdent("A"), TSemi>>,
     <<TKeyword("Attribute"), TIdent("X"), TKeyword("RightBracket"), TUse,
       TIdent("A"), TSemi>>,
     <<TKeyword("Var"), TVar("$p"), TSemi>>,
     <<TKeyword("Final"), TKeyword("Const"), TIdent("X"), TKeyword("Equals"),
       TInt("1"), TSemi>>,
     <<TKeyword("Attribute"), TIdent("X"), TKeyword("RightBracket"),
       TKeyword("Abstract"), TKeyword("Function"), TIdent("f"), TLParen,
       TRParen, TSemi>>}

TraitWellFormed ==
    Cat({<<TKeyword("Trait"), TIdent("T"), TLBrace>>},
        Cat(UpTo(MemberInputs, MaxMembers), {<<TRBrace>>}))
    \cup {<<TKeyword("Trait"), TIdent("T"), TLBrace, TKeyword("Public"),
            TKeyword("Function"), TIdent("__construct"), TLParen, TRParen,
            TLBrace, TRBrace, TKeyword("Readonly"), TVar("$p"), TSemi, TRBrace>>}

TraitInputs == Perturbed(TraitWellFormed, {TSemi, TUse})

VariableInputs ==
    {Repeat(TDollar, k) \o terminal \o closing :
        k \in 0..MaxDollars,
        terminal \in {<<TVar("$x")>>,
                      <<TDollarLeftBrace, TVar("$x")>>,
                      <<TDollar, TLBrace, TVar("$x")>>,
                      <<TDollarLeftBrace, TDollar, TVar("$x")>>,
                      <<TDollar, TLBrace, TDollar, TVar("$x")>>,
                      <<TDollarLeftBrace>>,
                      <<TDollar, TLBrace>>,
                      <<TLBrace, TVar("$x")>>,
                      <<TInt("1")>>,
                      <<>>},
        closing \in {<<TRBrace>>, <<>>, <<TSemi>>}}

\* the inputs a first call of each production is explored on
InputsOf(prod) ==
    CASE prod = "break_statement" -> BreakInputs
      [] prod = "continue_statement" -> ContinueInputs
      [] prod = "foreach_statement" -> ForeachInputs
      [] prod = "for_statement" -> ForInputs
      [] prod = "do_while_statement" -> DoWhileInputs
      [] prod = "while_statement" -> WhileInputs
      [] prod = "usage" -> UsageInputs
      [] prod = "parse" -> TraitInputs
      [] prod = "simple_variable" -> VariableInputs
      [] prod = "dynamic_variable" -> VariableInputs

Productions ==
    {"break_statement", "continue_statement", "foreach_statement",
     "for_statement", "do_while_statement", "while_statement", "usage",
     "parse", "simple_variable", "dynamic_variable"}

(***************************************************************************)
(* The state machine.  The driver calls the pending production at the      *)
(* cursor.  After an Ok it goes on with the production that the kind of    *)
(* the current token selects; an Err ends the parse (fail-fast).           *)
(***************************************************************************)
Dispatch(kind) ==
    CASE kind = "Foreach" -> "foreach_statement"
      [] kind = "For" -> "for_statement"
      [] kind = "Do" -> "do_while_statement"
      [] kind = "While" -> "while_statement"
      [] kind = "Break" -> "break_statement"
      [] kind = "Continue" -> "continue_statement"
      [] kind = "Use" -> "usage"
      [] kind = "Trait" -> "parse"
      [] kind \in {"Variable", "Dollar", "DollarLeftBrace"} -> "dynamic_variable"
      [] OTHER -> "none"

Init ==
    /\ \E prod \in Productions :
          /\ pending = prod
          /\ \E lexemes \in InputsOf(prod) :
                state = [tokens |-> Lex(lexemes), cursor |-> 1, log |-> <<>>,
                         attributes |-> <<>>]
    /\ production = "none"
    /\ began = 1
    /\ result = [ok |-> TRUE, value |-> NoValue, error |-> NoError]
    /\ syntax_error = NoSyntaxError
    /\ operation = "none"
    /\ output = <<>>
    /\ frame = NoFrame

\* the state a production is called in: the history starts empty
Fresh == [state EXCEPT !.log = <<>>]

Call(prod, r) ==
    /\ pending = prod
    /\ state' = r.state
    /\ production' = prod
    /\ pending' = IF r.ok THEN Dispatch(current(r.state).kind) ELSE "none"
    /\ began' = state.cursor
    /\ result' = [ok |-> r.ok, value |-> r.value, error |-> r.error]
    /\ UNCHANGED <<syntax_error, operation, output, frame>>

BreakStatement == Call("break_statement", break_statement(Fresh))

ContinueStatement == Call("continue_statement", continue_statement(Fresh))

ForeachStatement == Call("foreach_statement", foreach_statement(Fresh))

ForStatement == Call("for_statement", for_statement(Fresh))

DoWhileStatement == Call("do_while_statement", do_while_statement(Fresh))

WhileStatement == Call("while_statement", while_statement(Fresh))

Usage == Call("usage", usage(Fresh))

Parse == Call("parse", parse(Fresh))

SimpleVariable == Call("simple_variable", simple_variable(Fresh))

DynamicVariable == Call("dynamic_variable", dynamic_variable(Fresh))

Next ==
    \/ BreakStatement
    \/ ContinueStatement
    \/ ForeachStatement
    \/ ForStatement
    \/ DoWhileStatement
    \/ WhileStatement
    \/ Usage
    \/ Parse
    \/ SimpleVariable
    \/ DynamicVariable

Spec == Init /\ [][Next]_vars

(***************************************************************************)
(* The lexer errors: any error of any kind is built, and its span is read  *)
(* or its message rendered.  The parser stays where State::new leaves it.  *)
(***************************************************************************)
ErrorInit ==
    /\ state = [tokens |-> Lex(<<>>), cursor |-> 1, log |-> <<>>,
                attributes |-> <<>>]
    /\ production = "none"
    /\ pending = "none"
    /\ began = 1
    /\ result = [ok |-> TRUE, value |-> NoValue, error |-> NoError]
    /\ syntax_error \in SyntaxErrors
    /\ operation = "none"
    /\ output = <<>>
    /\ frame = NoFrame

SpanAccessor ==
    /\ operation' = "span"
    /\ output' = SyntaxError_span(syntax_error)
    /\ UNCHANGED <<state, production, pending, began, result, syntax_error,
                   frame>>

Display ==
    /\ operation' = "fmt"
    /\ output' = SyntaxError_fmt(syntax_error)
    /\ UNCHANGED <<state, production, pending, began, result, syntax_error,
                   frame>>

ErrorNext == SpanAccessor \/ Display

ErrorSpec == ErrorInit /\ [][ErrorNext]_vars

(***************************************************************************)
(* The trait productions, one step per turn of a loop.  frame holds the    *)
(* locals of usage and parse and the place reached (pc); `inner` tells     *)
(* that usage was called by member.  `pending` is the production that was  *)
(* called; when it returns, `production` names it and `result` holds what  *)
(* it returned.                                                            *)
(***************************************************************************)
EmptyFrame ==
    [pc |-> "none", inner |-> FALSE, use |-> 0, traits |-> <<>>,
     adaptations |-> <<>>, target |-> NoValue, insteadof |-> <<>>,
     header |-> NoValue, members |-> <<>>]

TraitInit ==
    /\ state = [tokens |-> Lex(<<>>), cursor |-> 1, log |-> <<>>,
                attributes |-> <<>>]
    /\ pending = "none"
    /\ frame = [EmptyFrame EXCEPT !.pc = "idle"]
    /\ production = "none"
    /\ began = 1
    /\ result = [ok |-> TRUE, value |-> NoValue, error |-> NoError]
    /\ syntax_error = NoSyntaxError
    /\ operation = "none"
    /\ output = <<>>

\* the production goes on in state st with locals fr
Goes(st, fr) ==
    /\ state' = st
    /\ frame' = fr
    /\ UNCHANGED <<production, pending, began, result, syntax_error,
                   operation, output>>

\* the production that was called returns r
Returns(r) ==
    /\ state' = r.state
    /\ frame' = [frame EXCEPT !.pc = "done"]
    /\ production' = pending
    /\ pending' = "none"
    /\ result' = [ok |-> r.ok, value |-> r.value, error |-> r.error]
    /\ UNCHANGED <<began, syntax_error, operation, output>>

\* `?` on r: an error leaves every production on the way
Propagate(r, fr) == IF r.ok THEN Goes(r.state, fr) ELSE Returns(r)

\* lines 155-159: usage returns; to member (line 191), or to its caller
UsageReturns(st, adaptations) ==
    IF frame.inner
    THEN Goes(st, [EmptyFrame EXCEPT
                      !.pc = "members",
                      !.header = frame.header,
                      !.members =
                          Append(frame.members,
                                 [type |-> "TraitUsageMember",
                                  usage |-> [type |-> "TraitUsage",
                                             use |-> frame.use,
                                             traits |-> frame.traits,
                                             adaptations |-> adaptations]])])
    ELSE Returns(Ok(st, [type |-> "TraitUsage", use |-> frame.use,
                         traits |-> frame.traits,
                         adaptations |-> adaptations]))

\* usage or parse is called on a token sequence
TraitCall ==
    /\ frame.pc = "idle"
    /\ \E prod \in {"usage", "parse"} :
          /\ pending' = prod
          /\ frame' = [frame EXCEPT !.pc = prod]
          /\ \E lexemes \in InputsOf(prod) :
                state' = [tokens |-> Lex(lexemes), cursor |-> 1, log |-> <<>>,
                          attributes |-> <<>>]
    /\ UNCHANGED <<production, began, result, syntax_error, operation, output>>

\* line 26
UsageEnter ==
    /\ frame.pc = "usage"
    /\ Propagate(skip(state, "Use"),
                 [frame EXCEPT !.pc = "traits",
                               !.use = skip(state, "Use").value])

\* lines 30-51, one turn
TraitNameTurn ==
    /\ frame.pc = "traits"
    /\ in_trait_names(state)
    /\ Propagate(trait_name_iteration(state),
                 [frame EXCEPT
                     !.traits = Append(@, trait_name_iteration(state).value.item),
                     !.pc = IF trait_name_iteration(state).value.again
                            THEN "traits" ELSE "body"])

\* line 30, the test fails
TraitNamesEnd ==
    /\ frame.pc = "traits"
    /\ ~in_trait_names(state)
    /\ Goes(state, [frame EXCEPT !.pc = "body"])

\* lines 54-55 and 152
UsageBody ==
    /\ frame.pc = "body"
    /\ IF current(state).kind = "LeftBrace"
       THEN Propagate(skip_left_brace(state),
                      [frame EXCEPT !.pc = "adaptations"])
       ELSE IF skip_semicolon(state).ok
       THEN UsageReturns(skip_semicolon(state).state, <<>>)
       ELSE Returns(skip_semicolon(state))

\* lines 57-147, one turn, up to the insteadof loop when there is one
AdaptationTurn ==
    /\ frame.pc = "adaptations"
    /\ current(state).kind # "RightBrace"
    /\ Propagate(adaptation_iteration(state),
                 IF adaptation_iteration(state).value.complete
                 THEN [frame EXCEPT
                          !.adaptations =
                              Append(@, adaptation_iteration(state).value.adaptation)]
                 ELSE [frame EXCEPT
                          !.pc = "insteadof",
                          !.target = adaptation_iteration(state).value.target,
                          !.insteadof =
                              adaptation_iteration(state).value.insteadof])

\* lines 57 and 150: the test fails on `}`
AdaptationsEnd ==
    /\ frame.pc = "adaptations"
    /\ current(state).kind = "RightBrace"
    /\ IF skip_right_brace(state).ok
       THEN UsageReturns(skip_right_brace(state).state, frame.adaptations)
       ELSE Returns(skip_right_brace(state))

\* lines 122-136: the test of the insteadof loop and one turn.  The loop is
\* entered and repeated after a `,` that no `;` follows, so its test never
\* fails: it ends by `break` or by an error.
InsteadofTurn ==
    /\ frame.pc = "insteadof"
    /\ IF current(state).kind # "SemiColon"
       THEN Propagate(insteadof_iteration(state),
                      [frame EXCEPT
                          !.insteadof =
                              Append(@, insteadof_iteration(state).value.item),
                          !.pc = IF insteadof_iteration(state).value.again
                                 THEN "insteadof" ELSE "precedence"])
       ELSE Goes(state, [frame EXCEPT !.pc = "precedence"])

\* lines 139-147: the Precedence is pushed and its `;` skipped
PrecedenceEnd ==
    /\ frame.pc = "precedence"
    /\ Propagate(skip_semicolon(state),
                 [frame EXCEPT
                     !.pc = "adaptations",
                     !.adaptations =
                         Append(@, [type |-> "Precedence",
                                    trait |-> frame.target.trait,
                                    method |-> frame.target.method,
                                    insteadof |-> frame.insteadof]),
                     !.target = NoValue,
                     !.insteadof = <<>>])

\* lines 163-168
ParseEnter ==
    /\ frame.pc = "parse"
    /\ Propagate(trait_header(state),
                 [frame EXCEPT !.pc = "members",
                               !.header = trait_header(state).value])

\* lines 171-172, one turn: member calls usage (lines 190-191 and 26), or
\* parses another member whole
MemberTurn ==
    /\ frame.pc = "members"
    /\ in_members(state)
    /\ IF member_is_usage(state)
       THEN Goes(skip(gather_attributes(state).state, "Use").state,
                 [frame EXCEPT
                     !.pc = "traits", !.inner = TRUE,
                     !.use = skip(gather_attributes(state).state, "Use").value])
       ELSE Propagate(member(state, frame.header.name),
                      [frame EXCEPT
                          !.members =
                              Append(@, member(state, frame.header.name).value)])

\* lines 171 and 176-184: the test fails, on `}` or at the end of the file
MembersEnd ==
    /\ frame.pc = "members"
    /\ ~in_members(state)
    /\ IF skip_right_brace(state).ok
       THEN Returns(Ok(skip_right_brace(state).state,
                       [type |-> "Trait", trait |-> frame.header.trait,
                        name |-> frame.header.name,
                        attributes |-> frame.header.attributes,
                        body |-> [left_brace |-> frame.header.left_brace,
                                  members |-> frame.members,
                                  right_brace |-> skip_right_brace(state).value]]))
       ELSE Returns(skip_right_brace(state))

\* the steps of a production that was called
TraitStep ==
    \/ UsageEnter
    \/ TraitNameTurn
    \/ TraitNamesEnd
    \/ UsageBody
    \/ AdaptationTurn
    \/ AdaptationsEnd
    \/ InsteadofTurn
    \/ PrecedenceEnd
    \/ ParseEnter
    \/ MemberTurn
    \/ MembersEnd

TraitNext == TraitCall \/ TraitStep

\* a production was called and has not returned
Running == frame.pc \notin {"idle", "done"}

\* Weak fairness of TraitStep: the parser is one synchronous thread, and a
\* production that was called goes on until it returns.  A running
\* production can always take a step, so Running stands for
\* ENABLED <<TraitStep>>_vars in the formula of WF_vars(TraitStep).
TraitFairness == []<>(~Running) \/ []<><<TraitStep>>_vars

TraitSpec == TraitInit /\ [][TraitNext]_vars /\ TraitFairness

(***************************************************************************)
(* Properties.  `production` is the production that returned last, `began` *)
(* the cursor it was called at, `result` what it returned and `state` the  *)
(* state it left; state.log lists the cursor positions next() was called   *)
(* at during that call.                                                    *)
(***************************************************************************)
Returned(prod) == production = prod /\ result.ok

Failed(prod) == production = prod /\ ~result.ok

\* the token at index i of the stream, and the kind of it
TokenAt(i) == state.tokens[IF i <= Len(state.tokens) THEN i ELSE Len(state.tokens)]

KindAt(i) == TokenAt(i).kind

\* C1: after every production returns Ok, the cursor is on the first token
\* after the tokens that make up the returned node: it was advanced by
\* next() only, one token at a time from the start index and never
\* backwards, the node's spans lie between the start index and the cursor,
\* the node starts on the start index and (for every node that stores its
\* last token; a TraitUsage does not) ends on the token before the cursor.
CursorDiscipline ==
    (production # "none" /\ result.ok) =>
        /\ state.cursor = began + Len(state.log)
        /\ \A i \in 1..Len(state.log) : state.log[i] = began + i - 1
        /\ Spans(result.value) \subseteq began..(state.cursor - 1)
        /\ began \in Spans(result.value)
        /\ production # "usage" => (state.cursor - 1) \in Spans(result.value)

\* a foreach statement that began after another statement and took at least
\* eight tokens
CursorDisciplineWitness ==
    /\ Returned("foreach_statement")
    /\ began > 1
    /\ state.cursor - began >= 7

\* C2: whenever a production returns Ok, the span of every token it
\* consumed is stored in the returned node or one of its descendants.
LosslessConsumedTokens ==
    (production # "none" /\ result.ok) =>
        \A i \in 1..Len(state.log) : state.log[i] \in Spans(result.value)

\* `use A;`: the `;` was consumed and the TraitUsage does not store it
LosslessConsumedTokensWitness ==
    /\ Returned("usage")
    /\ Len(result.value.traits) = 1
    /\ KindAt(began + 2) = "SemiColon"
    /\ state.cursor = began + 3
    /\ (began + 2) \notin Spans(result.value)

(***************************************************************************)
(* The header of a foreach, read off the tokens: the subject expression    *)
(* after `foreach (`, the `as` it ends on, the target after the optional   *)
(* `&`, the token the target ends on and the expression after `=>`.        *)
(***************************************************************************)
\* the state with the cursor on token i
At(i) == [state EXCEPT !.cursor = i, !.log = <<>>]

Subject == expressions_create(At(began + 2))

AsIndex == Subject.state.cursor

AmpersandAfterAs == KindAt(AsIndex + 1) = "Ampersand"

Target ==
    expressions_create(At(IF AmpersandAfterAs THEN AsIndex + 2 ELSE AsIndex + 1))

ArrowIndex == Target.state.cursor

ArrowFollows == KindAt(ArrowIndex) = "DoubleArrow"

AmpersandAfterArrow == KindAt(ArrowIndex + 1) = "Ampersand"

Second ==
    expressions_create(At(IF AmpersandAfterArrow THEN ArrowIndex + 2
                                                 ELSE ArrowIndex + 1))

Iterator == result.value.iterator

Body == result.value.body

\* C3: a foreach header `expr as & target => value` gives KeyAndValue with
\* ampersand = Some(span of that `&`), key = target and value = value.
ForeachAmpersandBeforeKey ==
    (/\ Returned("foreach_statement")
     /\ AmpersandAfterAs
     /\ ArrowFollows
     /\ ~AmpersandAfterArrow) =>
        /\ Iterator.type = "KeyAndValue"
        /\ Iterator.ampersand = Some(AsIndex + 1)
        /\ Iterator.key = Target.value
        /\ Iterator.value = Second.value

\* `foreach ($xs as & $k => $v)`: the `&` was consumed, the field is None
ForeachAmpersandBeforeKeyWitness ==
    /\ Returned("foreach_statement")
    /\ AmpersandAfterAs
    /\ ArrowFollows
    /\ ~AmpersandAfterArrow
    /\ Iterator.ampersand = None

\* C4: in a foreach, when `=>` follows the first target the iterator is
\* KeyAndValue with key the expression before `=>` and value the expression
\* after it; when no `=>` follows it is Value with the one target as value.
\* The fields hold expressions parsed from the input.
ForeachKeyValueOrder ==
    Returned("foreach_statement") =>
        /\ Target.ok
        /\ ArrowFollows =>
              /\ Iterator.type = "KeyAndValue"
              /\ Iterator.double_arrow = ArrowIndex
              /\ Iterator.key = Target.value
              /\ Second.ok
              /\ Iterator.value = Second.value
        /\ ~ArrowFollows =>
              /\ Iterator.type = "Value"
              /\ Iterator.value = Target.value

\* `foreach ($xs as $k => & $v)` and the like: a key and a value by reference
ForeachKeyValueOrderWitness ==
    /\ Returned("foreach_statement")
    /\ ArrowFollows
    /\ AmpersandAfterArrow
    /\ Iterator.key.name = "$k"
    /\ Iterator.value.name = "$v"

EndingKinds == {"SemiColon", "CloseTag"}

EndKeyword(prod) ==
    CASE prod = "foreach_statement" -> "EndForeach"
      [] prod = "for_statement" -> "EndFor"
      [] prod = "while_statement" -> "EndWhile"

\* the statements of a block body and the one statement of a statement
\* body, read off the tokens after the header
BlockStatements(prod) ==
    multiple_statements_until(At(result.value.right_parenthesis + 2),
                              EndKeyword(prod))

OneStatement == statement(At(result.value.right_parenthesis + 1))

\* C5: for foreach, for and while, the body of a successful parse is a Block
\* iff the token after the header's `)` is `:`; a Block holds the
\* statements up to the matching end keyword, which `;` or `?>` follows;
\* otherwise the body is the Statement variant with exactly one statement.
LoopBodyExclusivity ==
    \A prod \in {"foreach_statement", "for_statement", "while_statement"} :
        Returned(prod) =>
            /\ KindAt(result.value.right_parenthesis) = "RightParen"
            /\ Body.type \in {"Block", "Statement"}
            /\ Body.type = "Block" <=>
                  KindAt(result.value.right_parenthesis + 1) = "Colon"
            /\ Body.type = "Block" =>
                  /\ Body.colon = result.value.right_parenthesis + 1
                  /\ Body.statements = BlockStatements(prod).value
                  /\ Body.end = BlockStatements(prod).state.cursor
                  /\ KindAt(Body.end) = EndKeyword(prod)
                  /\ Body.ending.span = Body.end + 1
                  /\ KindAt(Body.end + 1) \in EndingKinds
                  /\ state.cursor = Body.end + 2
            /\ Body.type = "Statement" =>
                  /\ OneStatement.ok
                  /\ Body.statement = OneStatement.value
                  /\ state.cursor = OneStatement.state.cursor

\* `foreach (...) : stmt endforeach ?>`
LoopBodyExclusivityWitness ==
    /\ Returned("foreach_statement")
    /\ Body.type = "Block"
    /\ Len(Body.statements) >= 1
    /\ Body.ending.type = "CloseTag"

Max(S) == CHOOSE x \in S : \A y \in S : y <= x

Min(S) == CHOOSE x \in S : \A y \in S : x <= y

\* |commas| = |inner| - 1, or both 0; each comma is a `,` between two
\* neighbouring elements
CommaArithmetic(list) ==
    /\ Len(list.commas) = (IF Len(list.inner) >= 1 THEN Len(list.inner) - 1
                                                   ELSE 0)
    /\ \A c \in 1..Len(list.commas) :
          /\ KindAt(list.commas[c]) = "Comma"
          /\ Max(Spans(list.inner[c])) < list.commas[c]
          /\ list.commas[c] < Min(Spans(list.inner[c + 1]))

SemiColonsIn(from, to) ==
    Cardinality({j \in from..to : KindAt(j) = "SemiColon"})

\* a `,` of the header directly before the terminator of its list: `;` for
\* the first two lists, `)` for the third
ForTrailingComma ==
    /\ KindAt(began) = "For"
    /\ KindAt(began + 1) = "LeftParen"
    /\ \E i \in (began + 2)..Len(state.tokens) :
          /\ KindAt(i) = "Comma"
          /\ \A j \in (began + 2)..i : KindAt(j) # "RightParen"
          /\ \/ KindAt(i + 1) = "SemiColon"
                   /\ SemiColonsIn(began + 2, i) <= 1
             \/ KindAt(i + 1) = "RightParen"
                   /\ SemiColonsIn(began + 2, i) = 2

\* `for (;;) ;`
ForEmptyHeader ==
    /\ KindAt(began) = "For"
    /\ KindAt(began + 1) = "LeftParen"
    /\ KindAt(began + 2) = "SemiColon"
    /\ KindAt(began + 3) = "SemiColon"
    /\ KindAt(began + 4) = "RightParen"
    /\ KindAt(began + 5) = "SemiColon"

\* C6: in every successful for_statement each of the three lists has
\* |commas| = |inner| - 1, or both 0; any list may be empty; a `,` directly
\* before the terminator of its list makes for_statement fail.
ForCommaSeparated ==
    production = "for_statement" =>
        /\ result.ok =>
              /\ CommaArithmetic(Iterator.initializations)
              /\ CommaArithmetic(Iterator.conditions)
              /\ CommaArithmetic(Iterator.loop)
        /\ ForEmptyHeader =>
              /\ result.ok
              /\ Iterator.initializations.inner = <<>>
              /\ Iterator.conditions.inner = <<>>
              /\ Iterator.loop.inner = <<>>
        /\ ForTrailingComma => ~result.ok

\* a for with an empty second list and a third list of two or more
ForCommaSeparatedWitness ==
    /\ Returned("for_statement")
    /\ Len(Iterator.conditions.inner) = 0
    /\ Len(Iterator.loop.inner) >= 2
    /\ Len(Iterator.loop.commas) >= 1

Keyword(prod) ==
    CASE prod = "break_statement" -> "Break"
      [] prod = "continue_statement" -> "Continue"

\* C7: for break and continue, `level` is None iff the token after the
\* keyword is `;` or `?>`, and then the keyword and the ending are the only
\* tokens consumed; otherwise a level is parsed, from the token after the
\* keyword, and the statement succeeds only with `;` or `?>` after it.
BreakContinueLevel ==
    \A prod \in {"break_statement", "continue_statement"} :
        production = prod =>
            /\ (KindAt(began) = Keyword(prod)
                  /\ KindAt(began + 1) \in EndingKinds) =>
                  /\ result.ok
                  /\ result.value.level = None
                  /\ result.value.ending.span = began + 1
                  /\ state.log = <<began, began + 1>>
            /\ result.ok =>
                  /\ KindAt(began) = Keyword(prod)
                  /\ result.value.level = None
                        <=> KindAt(began + 1) \in EndingKinds
                  /\ result.value.level # None =>
                        /\ Min(Spans(result.value.level[1])) = began + 1
                        /\ result.value.ending.span =
                              Max(Spans(result.value.level[1])) + 1
                        /\ KindAt(result.value.ending.span) \in EndingKinds
                        /\ state.cursor = result.value.ending.span + 1

\* `continue ?>`
BreakContinueLevelWitness ==
    /\ Returned("continue_statement")
    /\ result.value.level = None
    /\ KindAt(began + 1) = "CloseTag"

RECURSIVE Depth(_)
Depth(level) ==
    IF level.type = "Parenthesized" THEN 1 + Depth(level.level) ELSE 0

\* the number of `(` from token i on
RECURSIVE LeadingParens(_)
LeadingParens(i) ==
    IF KindAt(i) = "LeftParen" THEN 1 + LeadingParens(i + 1) ELSE 0

\* after n `(` from token i on: an integer and n `)`
IsLevelPhrase(i, n) ==
    /\ KindAt(i + n) = "LiteralInteger"
    /\ \A j \in 1..n : KindAt(i + n + j) = "RightParen"

\* the Level of the phrase `(`^n integer `)`^n that starts on token i
RECURSIVE LevelOfPhrase(_, _)
LevelOfPhrase(i, n) ==
    IF n = 0
    THEN [type |-> "Literal",
          literal |-> [type |-> "LiteralInteger", value |-> TokenAt(i).value,
                       span |-> i]]
    ELSE [type |-> "Parenthesized", left_parenthesis |-> i,
          level |-> LevelOfPhrase(i + 1, n - 1),
          right_parenthesis |-> i + 2 * n]

\* C8: loop_level accepts exactly `(`^n integer `)`^n, n >= 0, and returns
\* n Parenthesized layers around the Literal of that integer; the depth of
\* the chain is the number of `(` consumed; anything else makes it fail.
LoopLevelShape ==
    \A prod \in {"break_statement", "continue_statement"} :
        (/\ production = prod
         /\ KindAt(began) = Keyword(prod)
         /\ KindAt(began + 1) \notin EndingKinds) =>
            /\ result.ok <=>
                  /\ IsLevelPhrase(began + 1, LeadingParens(began + 1))
                  /\ KindAt(began + 2 + 2 * LeadingParens(began + 1))
                        \in EndingKinds
            /\ result.ok =>
                  /\ result.value.level =
                        Some(LevelOfPhrase(began + 1, LeadingParens(began + 1)))
                  /\ Depth(result.value.level[1]) = LeadingParens(began + 1)
                  /\ Len(state.log) = 3 + 2 * LeadingParens(began + 1)
            /\ (~result.ok
                  /\ IsLevelPhrase(began + 1, LeadingParens(began + 1))) =>
                  state.cursor = began + 2 + 2 * LeadingParens(began + 1)
            /\ ~IsLevelPhrase(began + 1, LeadingParens(began + 1)) =>
                  state.cursor < began + 2 + 2 * LeadingParens(began + 1)

\* `break (((2)));`, with as many layers as the inputs go to
LoopLevelShapeWitness ==
    /\ Returned("break_statement")
    /\ result.value.level # None
    /\ Depth(result.value.level[1]) = MaxDepth
    /\ result.value.ending.type = "Semicolon"

\* tokens from..to are identifier `,` identifier `,` ... and end on a `,`
IsNamesThenComma(from, to) ==
    /\ from < to
    /\ (to - from) % 2 = 1
    /\ \A j \in from..to :
          KindAt(j) = (IF (j - from) % 2 = 0 THEN "Identifier" ELSE "Comma")

\* tokens from..to are identifier `,` identifier ... and end on an identifier
IsNames(from, to) ==
    /\ from <= to
    /\ (to - from) % 2 = 0
    /\ \A j \in from..to :
          KindAt(j) = (IF (j - from) % 2 = 0 THEN "Identifier" ELSE "Comma")

\* token i is a `,` of the list of trait names, directly before `;` or `{`
TrailingCommaInNames(i) ==
    /\ KindAt(began) = "Use"
    /\ IsNamesThenComma(began + 1, i)
    /\ KindAt(i + 1) \in {"SemiColon", "LeftBrace"}

\* token k is the `insteadof` of the first adaptation of the usage
FirstInsteadof(k) ==
    /\ KindAt(began) = "Use"
    /\ KindAt(k) = "Insteadof"
    /\ \E b \in (began + 2)..k :
          /\ IsNames(began + 1, b - 1)
          /\ KindAt(b) = "LeftBrace"
          /\ \/ k = b + 2 /\ KindAt(b + 1) = "Identifier"
             \/ /\ k = b + 4
                /\ KindAt(b + 1) = "Identifier"
                /\ KindAt(b + 2) = "DoubleColon"
                /\ KindAt(b + 3) = "Identifier"

\* token i is a `,` of an insteadof list, directly before `;`
TrailingCommaInInsteadof(k, i) ==
    /\ KindAt(k) = "Insteadof"
    /\ IsNamesThenComma(k + 1, i)
    /\ KindAt(i + 1) = "SemiColon"

\* usage failed on token i, a `,`, where it expected the token given
FailedOnComma(i, expected) ==
    /\ ~result.ok
    /\ state.cursor = i
    /\ result.error.span = i
    /\ result.error.found = "Comma"
    /\ result.error.expected = <<expected>>

UsageNamesATrait ==
    Returned("usage") => Len(result.value.traits) >= 1

\* `use { }`
UsageNamesATraitWitness ==
    /\ Returned("usage")
    /\ result.value.traits = <<>>
    /\ KindAt(began + 1) = "LeftBrace"

VisibilityKinds == {"Public", "Protected", "Private"}

\* token k is the `as` of the first adaptation of the usage
FirstAs(k) ==
    /\ KindAt(began) = "Use"
    /\ KindAt(k) = "As"
    /\ \E b \in (began + 2)..k :
          /\ IsNames(began + 1, b - 1)
          /\ KindAt(b) = "LeftBrace"
          /\ \/ k = b + 2 /\ KindAt(b + 1) = "Identifier"
             \/ /\ k = b + 4
                /\ KindAt(b + 1) = "Identifier"
                /\ KindAt(b + 2) = "DoubleColon"
                /\ KindAt(b + 3) = "Identifier"

\* the SimpleIdentifier of the identifier token i
IdentifierAt(i) ==
    [type |-> "SimpleIdentifier", span |-> i, value |-> TokenAt(i).value]

\* the `[Trait::]` of an adaptation whose keyword is token k
QualifierBefore(k) ==
    IF KindAt(k - 2) = "DoubleColon" THEN Some(IdentifierAt(k - 3)) ELSE None

\* usage failed on token i
FailedOn(i) ==
    /\ ~result.ok
    /\ state.cursor = i
    /\ result.error.span = i

\* the first adaptation, which ends on token e, was accepted as `a`: usage
\* went on after its `;`, and when it returned Ok, `a` is the first
\* adaptation it returned
FirstAdaptationIs(e, a) ==
    /\ state.cursor > e
    /\ result.ok => result.value.adaptations[1] = a

\* C11: after `[Trait::]method as`, a visibility keyword directly followed
\* by `;` gives Visibility with that visibility; a visibility keyword
\* followed by another token gives Alias with visibility Some and the name
\* that follows as alias, or an error when no name follows; a token that is
\* no visibility keyword gives Alias with visibility None.  An adaptation is
\* accepted only when `;` follows it.
AdaptationDisambiguation ==
    production = "usage" =>
        \A k \in (began + 1)..Len(state.tokens) :
            FirstAs(k) =>
                /\ (KindAt(k + 1) \in VisibilityKinds
                      /\ KindAt(k + 2) = "SemiColon") =>
                      FirstAdaptationIs(k + 2,
                          [type |-> "Visibility", trait |-> QualifierBefore(k),
                           method |-> IdentifierAt(k - 1),
                           visibility |-> [type |-> KindAt(k + 1),
                                           span |-> k + 1]])
                /\ (KindAt(k + 1) \in VisibilityKinds
                      /\ KindAt(k + 2) = "Identifier") =>
                      IF KindAt(k + 3) = "SemiColon"
                      THEN FirstAdaptationIs(k + 3,
                               [type |-> "Alias", trait |-> QualifierBefore(k),
                                method |-> IdentifierAt(k - 1),
                                alias |-> IdentifierAt(k + 2),
                                visibility |-> Some([type |-> KindAt(k + 1),
                                                     span |-> k + 1])])
                      ELSE FailedOn(k + 3)
                /\ (KindAt(k + 1) \in VisibilityKinds
                      /\ KindAt(k + 2) \notin {"SemiColon", "Identifier"}) =>
                      FailedOn(k + 2)
                /\ KindAt(k + 1) = "Identifier" =>
                      IF KindAt(k + 2) = "SemiColon"
                      THEN FirstAdaptationIs(k + 2,
                               [type |-> "Alias", trait |-> QualifierBefore(k),
                                method |-> IdentifierAt(k - 1),
                                alias |-> IdentifierAt(k + 1),
                                visibility |-> None])
                      ELSE FailedOn(k + 2)
                /\ KindAt(k + 1) \notin VisibilityKinds \cup {"Identifier"} =>
                      FailedOn(k + 1)

\* `use A { B::m as protected n; }`
AdaptationDisambiguationWitness ==
    /\ Returned("usage")
    /\ Len(result.value.adaptations) >= 1
    /\ result.value.adaptations[1].type = "Alias"
    /\ result.value.adaptations[1].trait # None
    /\ result.value.adaptations[1].visibility # None

\* C12: every Precedence adaptation returned by usage has a trait
\* qualifier: `method insteadof B;` without `Trait::` is not accepted.
PrecedenceIsQualified ==
    Returned("usage") =>
        \A i \in 1..Len(result.value.adaptations) :
            result.value.adaptations[i].type = "Precedence" =>
                result.value.adaptations[i].trait # None

\* `use A { m insteadof B; }`
PrecedenceIsQualifiedWitness ==
    /\ Returned("usage")
    /\ Len(result.value.adaptations) = 1
    /\ result.value.adaptations[1].type = "Precedence"
    /\ result.value.adaptations[1].trait = None
    /\ KindAt(began + 4) = "Insteadof"

\* the first member of a trait declaration `trait T {` begins on this token
FirstMember == began + 3

\* what usage returns when called on the first member
UsageOfFirstMember == usage(At(FirstMember))

\* C13: when attributes were gathered for a member and the current token
\* is `use`, member returns an error and never TraitMember::TraitUsage; when
\* none were gathered and the current token is `use`, member returns what
\* usage returns, wrapped as TraitMember::TraitUsage.
MemberDispatch ==
    (/\ production = "parse"
     /\ KindAt(began) = "Trait"
     /\ KindAt(began + 1) = "Identifier"
     /\ KindAt(began + 2) = "LeftBrace") =>
        /\ KindAt(FirstMember) = "Use" =>
              IF UsageOfFirstMember.ok
              THEN /\ state.cursor >= UsageOfFirstMember.state.cursor
                   /\ result.ok =>
                         result.value.body.members[1] =
                             [type |-> "TraitUsageMember",
                              usage |-> UsageOfFirstMember.value]
              ELSE /\ ~result.ok
                   /\ result.error = UsageOfFirstMember.error
                   /\ state.cursor = UsageOfFirstMember.state.cursor
        /\ (/\ KindAt(FirstMember) = "Attribute"
            /\ KindAt(FirstMember + 1) = "Identifier"
            /\ KindAt(FirstMember + 2) = "RightBracket"
            /\ KindAt(FirstMember + 3) = "Use") =>
              FailedOn(FirstMember + 3)
        /\ result.ok =>
              \A i \in 1..Len(result.value.body.members) :
                  result.value.body.members[i].type = "TraitUsageMember" =>
                      KindAt(result.value.body.members[i].usage.use - 1)
                          # "RightBracket"

\* `trait T { #[X] use A; }`
MemberDispatchWitness ==
    /\ Failed("parse")
    /\ KindAt(began + 2) = "LeftBrace"
    /\ KindAt(FirstMember) = "Attribute"
    /\ KindAt(FirstMember + 3) = "Use"
    /\ KindAt(FirstMember + 4) = "Identifier"
    /\ KindAt(FirstMember + 5) = "SemiColon"
    /\ state.cursor = FirstMember + 3

\* the number of `$` tokens from token i on
RECURSIVE LeadingDollars(_)
LeadingDollars(i) ==
    IF KindAt(i) = "Dollar" THEN 1 + LeadingDollars(i + 1) ELSE 0

\* k VariableVariable layers, for the `$` tokens i, i + 1, ..., around a
\* terminal
RECURSIVE Ladder(_, _, _)
Ladder(i, k, terminal) ==
    IF k = 0 THEN terminal
    ELSE [type |-> "VariableVariable", span |-> i,
          variable |-> Ladder(i + 1, k - 1, terminal)]

\* the token after the run of `$` that begins the variable
AfterDollars == began + LeadingDollars(began)

\* the expression between `${` and `}`, for an opening that ends on the
\* token before i
BracedExpression(i) == expressions_create(At(i))

\* the `${ expr }` whose opening begins on token from and whose expression
\* begins on token i
BracedAt(from, i) ==
    [type |-> "BracedVariableVariable", start |-> from,
     variable |-> BracedExpression(i).value,
     end |-> BracedExpression(i).state.cursor]

\* dynamic_variable returned k layers around the terminal and left the
\* cursor on token after
ReturnedLadder(k, terminal, after) ==
    /\ result.ok
    /\ result.value = Ladder(began, k, terminal)
    /\ state.cursor = after

\* C14: dynamic_variable on k `$` tokens and a terminal form returns k
\* VariableVariable layers, the i-th with the span of the i-th `$`, around
\* the terminal: SimpleVariable for a Variable token, BracedVariableVariable
\* for `${ expr }`; when the token after the `$` run is none of Variable,
\* DollarLeftBrace, Dollar, LeftBrace it fails, expecting a variable.
VariableLadder ==
    production = "dynamic_variable" =>
        /\ KindAt(AfterDollars) = "Variable" =>
              ReturnedLadder(LeadingDollars(began),
                             [type |-> "SimpleVariable", span |-> AfterDollars,
                              name |-> TokenAt(AfterDollars).value],
                             AfterDollars + 1)
        /\ KindAt(AfterDollars) = "DollarLeftBrace" =>
              IF /\ BracedExpression(AfterDollars + 1).ok
                 /\ KindAt(BracedExpression(AfterDollars + 1).state.cursor)
                       = "RightBrace"
              THEN ReturnedLadder(
                       LeadingDollars(began),
                       BracedAt(AfterDollars, AfterDollars + 1),
                       BracedExpression(AfterDollars + 1).state.cursor + 1)
              ELSE ~result.ok
        /\ (KindAt(AfterDollars) = "LeftBrace" /\ LeadingDollars(began) >= 1) =>
              IF /\ BracedExpression(AfterDollars + 1).ok
                 /\ KindAt(BracedExpression(AfterDollars + 1).state.cursor)
                       = "RightBrace"
              THEN ReturnedLadder(
                       LeadingDollars(began) - 1,
                       BracedAt(AfterDollars - 1, AfterDollars + 1),
                       BracedExpression(AfterDollars + 1).state.cursor + 1)
              ELSE ~result.ok
        /\ KindAt(AfterDollars) \notin {"Variable", "DollarLeftBrace", "LeftBrace"} =>
              /\ FailedOn(AfterDollars)
              /\ result.error.expected = <<"a variable">>

\* `$$${$x}`
VariableLadderWitness ==
    /\ Returned("dynamic_variable")
    /\ LeadingDollars(began) = 2
    /\ KindAt(began + 2) = "DollarLeftBrace"
    /\ result.value.type = "VariableVariable"
    /\ result.value.variable.type = "VariableVariable"
    /\ result.value.variable.variable.type = "BracedVariableVariable"

\* Source extents.  A token's span is the byte range of its lexeme: it
\* starts where the lexemes before it end and is as long as its value.
RECURSIVE Offset(_, _)
Offset(tokens, i) ==
    IF i <= 1 THEN 0 ELSE Offset(tokens, i - 1) + Len(tokens[i - 1].value)

Extent(tokens, i) ==
    [start |-> Offset(tokens, i),
     end |-> Offset(tokens, i) + Len(tokens[i].value)]

\* a variable or literal node with the spans of its atoms as byte ranges
RECURSIVE InSource(_, _)
InSource(tokens, node) ==
    CASE node.type = "VariableVariable" ->
            [type |-> node.type, span |-> Extent(tokens, node.span),
             variable |-> InSource(tokens, node.variable)]
      [] node.type = "BracedVariableVariable" ->
            [type |-> node.type, start |-> Extent(tokens, node.start),
             variable |-> InSource(tokens, node.variable),
             end |-> Extent(tokens, node.end)]
      [] OTHER -> [node EXCEPT !.span = Extent(tokens, node.span)]

\* the same source with the `${` at token `began` lexed as `$` and `{`
TwoTokenLexing ==
    [i \in 1..(Len(state.tokens) + 1) |->
        IF i < began THEN state.tokens[i]
        ELSE IF i = began THEN [kind |-> "Dollar", value |-> "$", span |-> i]
        ELSE IF i = began + 1 THEN [kind |-> "LeftBrace", value |-> "{", span |-> i]
        ELSE [state.tokens[i - 1] EXCEPT !.span = i]]

\* dynamic_variable called at the same place on the two-token lexing
OnTwoTokenLexing ==
    dynamic_variable([At(began) EXCEPT !.tokens = TwoTokenLexing])

\* dynamic_variable was called on a DollarLeftBrace token
CalledOnDollarLeftBrace ==
    production = "dynamic_variable" /\ KindAt(began) = "DollarLeftBrace"

\* both lexings succeed or both fail, and on success both leave the cursor
\* just after the `}`
BracedLexingsSameOutcome ==
    CalledOnDollarLeftBrace =>
        /\ result.ok = OnTwoTokenLexing.ok
        /\ result.ok =>
              /\ KindAt(state.cursor - 1) = "RightBrace"
              /\ OnTwoTokenLexing.state.cursor = state.cursor + 1
              /\ TwoTokenLexing[state.cursor].kind = "RightBrace"

\* in source coordinates both lexings give the same expression and closing
\* brace
BracedLexingsSameVariableAndEnd ==
    (CalledOnDollarLeftBrace /\ result.ok) =>
        /\ InSource(state.tokens, result.value).variable
              = InSource(TwoTokenLexing, OnTwoTokenLexing.value).variable
        /\ InSource(state.tokens, result.value).end
              = InSource(TwoTokenLexing, OnTwoTokenLexing.value).end

\* C15: `${ expr }` lexed as DollarLeftBrace, expr, RightBrace and as Dollar,
\* LeftBrace, expr, RightBrace parse alike: both succeed or both fail, both
\* leave the cursor just after the `}`, and both give the same
\* BracedVariableVariable, with the same variable and end and a start that
\* covers the same opening `${`.
BracedLexingsEquivalent ==
    /\ BracedLexingsSameOutcome
    /\ BracedLexingsSameVariableAndEnd
    /\ (CalledOnDollarLeftBrace /\ result.ok) =>
          InSource(state.tokens, result.value).start
             = InSource(TwoTokenLexing, OnTwoTokenLexing.value).start

\* `${$x}` parsed: the one-token lexing stores bytes 0..2 as start, the
\* two-token lexing bytes 0..1
BracedLexingsEquivalentWitness ==
    /\ CalledOnDollarLeftBrace
    /\ result.ok
    /\ OnTwoTokenLexing.ok
    /\ InSource(state.tokens, result.value).start = [start |-> 0, end |-> 2]
    /\ InSource(TwoTokenLexing, OnTwoTokenLexing.value).start
          = [start |-> 0, end |-> 1]

\* the nodes reached from n by following children() one or more times
RECURSIVE Descendants(_)
Descendants(n) ==
    Range(children(n)) \cup UNION {Descendants(c) : c \in Range(children(n))}

\* the Level nodes of a level: itself and the levels nested in it
RECURSIVE Levels(_)
Levels(l) ==
    IF l.type = "Parenthesized" THEN {l} \cup Levels(l.level) ELSE {l}

\* the first token of a node
FirstSpan(n) == Min(Spans(n))

\* the nodes of a sequence come one after the other in the source
InSourceOrder(nodes) ==
    \A i, j \in 1..Len(nodes) : i < j => FirstSpan(nodes[i]) < FirstSpan(nodes[j])

LoopProductions ==
    {"foreach_statement", "for_statement", "do_while_statement",
     "while_statement"}

\* a break or continue was parsed with a level
ReturnedWithLevel ==
    /\ production \in {"break_statement", "continue_statement"}
    /\ result.ok
    /\ result.value.level # None

\* children() of a break or continue is the level when there is one and
\* nothing otherwise
BreakContinueChildren ==
    (production \in {"break_statement", "continue_statement"} /\ result.ok) =>
        children(result.value) =
            IF KindAt(began + 1) \in EndingKinds
            THEN <<>> ELSE <<result.value.level[1]>>

\* children() of a loop statement, and of every node under it, lists nodes
\* in source order; a loop statement has its header node and its body
LoopChildrenInSourceOrder ==
    (production \in LoopProductions /\ result.ok) =>
        /\ Len(children(result.value)) = 2
        /\ \A n \in {result.value} \cup Descendants(result.value) :
              InSourceOrder(children(n))

\* C16: children() of a loop node returns its direct child nodes in source
\* order: children() of a parenthesized Level is the one Level directly
\* inside the parentheses, children() of a break or continue is its level
\* when present and nothing otherwise, and following children() from a
\* statement reaches every nested node.
NodeTraversal ==
    /\ BreakContinueChildren
    /\ LoopChildrenInSourceOrder
    /\ ReturnedWithLevel =>
          /\ \A l \in Levels(result.value.level[1]) :
                l.type = "Parenthesized" => children(l) = <<l.level>>
          /\ Levels(result.value.level[1]) \subseteq Descendants(result.value)

\* `break (1);`: children() of the parenthesized level is the integer
\* literal, and the traversal never reaches the Level inside the parentheses
NodeTraversalWitness ==
    /\ ReturnedWithLevel
    /\ result.value.level[1].type = "Parenthesized"
    /\ result.value.level[1].level.type = "Literal"
    /\ children(result.value.level[1]) = <<result.value.level[1].level.literal>>
    /\ result.value.level[1].level \notin Descendants(result.value)

\* the message has the piece `text` right after the piece `label`
MentionsAfter(message, label, text) ==
    \E i \in 1..(Len(message) - 1) : message[i] = label /\ message[i + 1] = text

\* the message has the piece `text` right before the piece `label`
MentionsBefore(message, label, text) ==
    \E i \in 2..Len(message) : message[i] = label /\ message[i - 1] = text

\* how the datum of an error reads in a message
DatumText(e) ==
    IF e.kind = "UnexpectedCharacter" THEN DebugChar(e.datum)
    ELSE ToString(e.datum)

\* span() gives back the span the error was built with
SpanIsConstructionSpan ==
    operation = "span" =>
        /\ output.start = syntax_error.span.start
        /\ output.end = syntax_error.span.end

\* every message names the line of the span's start, and the datum of the
\* kinds that carry one
MessageNamesLineAndDatum ==
    operation = "fmt" =>
        /\ MentionsAfter(output, " on line ",
                         ToString(syntax_error.span.start.line))
        /\ syntax_error.kind \in ByteKinds \cup {"InvalidDocBodyIndentationLevel"} =>
              MentionsBefore(output, " on line ", DatumText(syntax_error))

\* C17: for each of the eleven kinds of SyntaxError and every span, span()
\* returns the span the error was built with, and the rendered message
\* names the line and the column of the span's start, and the datum of the
\* kinds that carry one.
SyntaxErrorReport ==
    /\ SpanIsConstructionSpan
    /\ MessageNamesLineAndDatum
    /\ operation = "fmt" =>
          MentionsAfter(output, " column ",
                        ToString(syntax_error.span.start.column))

\* InvalidDocBodyIndentationLevel(1, span) with span.start at line 1 column
\* 2, rendered: the message ends with the line
SyntaxErrorReportWitness ==
    /\ operation = "fmt"
    /\ syntax_error.kind = "InvalidDocBodyIndentationLevel"
    /\ syntax_error.datum = 1
    /\ syntax_error.span.start = [line |-> 1, column |-> 2]
    /\ output[Len(output)] = "1"
    /\ output[Len(output) - 1] = " on line "
    /\ "2" \notin Range(output)

\* the state the production that was called started in
Started ==
    [tokens |-> state.tokens, cursor |-> 1, log |-> <<>>, attributes |-> <<>>]

\* the production that has returned, computed in one piece
Whole == IF production = "usage" THEN usage(Started) ELSE parse(Started)

\* taken turn by turn, usage and parse return what they return in one piece
TurnsAgreeWithProductions ==
    frame.pc = "done" =>
        /\ state = Whole.state
        /\ result = [ok |-> Whole.ok, value |-> Whole.value,
                     error |-> Whole.error]

\* a turn of one of the four loops is about to be taken
Iterating ==
    \/ frame.pc = "traits" /\ in_trait_names(state)
    \/ frame.pc = "adaptations" /\ current(state).kind # "RightBrace"
    \/ frame.pc = "insteadof" /\ current(state).kind # "SemiColon"
    \/ frame.pc = "members" /\ in_members(state)

\* every turn of a loop moves the cursor forward or returns an error
IterationsAdvance ==
    [][Iterating => \/ state'.cursor > state.cursor
                    \/ frame'.pc = "done" /\ ~result'.ok]_vars

\* the member loop standing at the end of the file returns an error
EofEndsInError ==
    [][(frame.pc = "members" /\ is_eof(state)) =>
           (frame'.pc = "done" /\ ~result'.ok)]_vars

\* a trait that was parsed ends with its `}`, inside the token sequence
TraitClosedByBrace ==
    (frame.pc = "done" /\ production = "parse" /\ result.ok) =>
        /\ state.cursor <= Len(state.tokens)
        /\ KindAt(state.cursor - 1) = "RightBrace"

\* C18: on every finite token sequence that ends with the end-of-file
\* token, usage and parse return; every turn of the member loop, the
\* trait-name loop, the adaptation loop and the insteadof loop moves the
\* cursor forward or returns an error; a trait body that reaches the end of
\* the file before its `}` ends in an error.
TraitTermination ==
    /\ IterationsAdvance
    /\ EofEndsInError
    /\ []TraitClosedByBrace
    /\ Running ~> (frame.pc = "done")

\* a trait whose body ran into the end of the file after a member
TraitTerminationWitness ==
    /\ frame.pc = "done"
    /\ production = "parse"
    /\ Len(frame.members) >= 1
    /\ is_eof(state)
    /\ ~result.ok
    /\ result.error.found = EofKind

====
